---- MODULE Spec2Model ----
(***************************************************************************)
(* Prediction core of the stock-prediction dashboard:                      *)
(*   - EnsemblePredictor.ensemble_predict   (ml-models/ensemble_model.py)  *)
(*   - TechnicalIndicators: the indicator functions, generate_signals and  *)
(*     get_overall_signal      (backend/app/utils/technical_indicators.py) *)
(*   - RealDataPredictor.predict_next_day / _generate_prediction /         *)
(*     _fallback_prediction  (backend/app/services/real_data_predictor.py) *)
(*                                                                         *)
(*   - the services around it: the history cache and the shared state of *)
(*     RealDataPredictor, SmartDataFetcher, WebSocketManager and the       *)
(*     WebSocket endpoint, CacheManager, async_retry                       *)
(*                                                                         *)
(* The operations of the first three are pure functions of their           *)
(* arguments: each of their specifications draws the arguments in its      *)
(* initial states and has one action per operation, which stores what the  *)
(* operation returns.  For a service that keeps state between calls        *)
(* `args` holds, next to the arguments, the objects the calls work on (the *)
(* fields of the service and the process-wide objects it uses), under the  *)
(* names the code gives them; each such section says what it holds.        *)
(*                                                                         *)
(* Numbers.  Prices are whole currency units on input; the code's floats   *)
(* are modelled by exact rationals (numerator, denominator) and every      *)
(* round(x, n) of the code by exact round-half-even to n decimals:         *)
(*   cents      = price  * 100     (round(x, 2))                           *)
(*   tenths     = percent * 10     (round(x, 1))                           *)
(*   hundredths = percent * 100    (round(x, 2) of a percentage)           *)
(* Weights are kept in hundredths (0.40 -> 40).  A binary float that sits   *)
(* next to an exact decimal tie may round to the other neighbour, one unit *)
(* in the last decimal away; no property below depends on the direction of *)
(* a tie.  The values of a pandas Series are exact rationals extended by   *)
(* nan and the two infinities; only a square root is rounded (SqrtScale).  *)
(***************************************************************************)
EXTENDS Integers, Sequences, FiniteSets, TLC

VARIABLES
    args,      \* the arguments of the call: the operation and what it is given;
               \* for a service with state, the objects its calls work on
    result     \* what the call returned (or the exception that escaped it)

vars == <<args, result>>

----------------------------------------------------------------------------
(* Arithmetic helpers *)

Abs(x) == IF x < 0 THEN -x ELSE x

\* Python round(): the rational num/den (den > 0) rounded to the nearest
\* integer, ties to the even neighbour.
RoundHalfEven(num, den) ==
    LET q == num \div den
        r == num % den
    IN  IF 2 * r < den THEN q
        ELSE IF 2 * r > den THEN q + 1
        ELSE IF q % 2 = 0 THEN q ELSE q + 1

RECURSIVE SumSeq(_)
SumSeq(s) == IF s = <<>> THEN 0 ELSE Head(s) + SumSeq(Tail(s))

\* sum of f[x] over the finite set S
RECURSIVE SumOver(_, _)
SumOver(f, S) ==
    IF S = {} THEN 0
    ELSE LET x == CHOOSE y \in S : TRUE IN f[x] + SumOver(f, S \ {x})

----------------------------------------------------------------------------
(* Input domains *)

ModelOrder == <<"lstm", "gru", "random_forest", "xgboost">>

ModelNames == {ModelOrder[i] : i \in 1..Len(ModelOrder)}

\* scalar outputs of the trained models (opaque producers: any sign)
ModelOutputs == {-100, 0, 90, 100, 110}

\* last close of the series, a positive price: change_percent
\* = (prediction - current_price) / current_price * 100 is defined only for
\* a non-zero close
CurrentPrices == {100, 110}

\* NaN of pandas' std() on fewer than two returns
NaN == -1

\* trailing volatility in tenths of a percent: NaN, 0.5 %, 3 %, 60 %
Volatilities == {NaN, 5, 30, 600}

\* draws of np.random.uniform(-2, 3), hundredths of a percent
DemoChanges == {-200, 0, 250}

NoResult == [status |-> "none"]

----------------------------------------------------------------------------
(* EnsemblePredictor *)

\* mutation: the xgboost and random_forest entries of the table exchanged
WEIGHTS_Swapped(model_name) ==
    CASE model_name = "lstm"          -> 40
      [] model_name = "gru"           -> 30
      [] model_name = "xgboost"       -> 10
      [] model_name = "random_forest" -> 20
      [] OTHER                        -> 10

\* WEIGHTS.get(model_name, 0.1), in hundredths
WEIGHTS(model_name) ==
    CASE model_name = "lstm"          -> 40
      [] model_name = "gru"           -> 30
      [] model_name = "xgboost"       -> 20
      [] model_name = "random_forest" -> 10
      [] OTHER                        -> 10

\* predictions.items(): the dict is filled in the order lstm, gru,
\* random_forest, xgboost, and iterates in insertion order
Items(preds) == SelectSeq(ModelOrder, LAMBDA m : m \in DOMAIN preds)

\* mutation: the blend is normalised by the weight of the whole table
\* instead of the weight of the models present
RECURSIVE BlendLoop_FullTable(_, _, _)
BlendLoop_FullTable(items, preds, acc) ==
    IF items = <<>> THEN [acc EXCEPT !.total_weight = 100]
    ELSE LET model_name == Head(items)
             weight == WEIGHTS(model_name)
             total  == acc.total_weight + weight
         IN  BlendLoop_FullTable(Tail(items), preds,
                 [weighted_sum  |-> acc.weighted_sum + preds[model_name] * weight,
                  total_weight  |-> total,
                  contributions |-> acc.contributions @@
                      (model_name :> RoundHalfEven(weight * 1000, total))])

\* the loop "for model_name, pred in predictions.items()":
\* acc = [weighted_sum, total_weight, contributions]
RECURSIVE BlendLoop(_, _, _)
BlendLoop(items, preds, acc) ==
    IF items = <<>> THEN acc
    ELSE LET model_name == Head(items)
             weight == WEIGHTS(model_name)
             total  == acc.total_weight + weight
         IN  BlendLoop(Tail(items), preds,
                 [weighted_sum  |-> acc.weighted_sum + preds[model_name] * weight,
                  total_weight  |-> total,
                  contributions |-> acc.contributions @@
                      (model_name :> RoundHalfEven(weight * 1000, total))])


\* np.std / np.mean of list(predictions.values()) as exact integers:
\* mean = S1 / n, std = sqrt(V) / n with V = n * sum(p^2) - S1^2 >= 0
Agreement(preds) ==
    LET vals == [i \in 1..Len(Items(preds)) |-> preds[Items(preds)[i]]]
        n    == Len(vals)
        S1   == SumSeq(vals)
        S2   == SumSeq([i \in 1..n |-> vals[i] * vals[i]])
    IN  [n |-> n, S1 |-> S1, V |-> n * S2 - S1 * S1]

\* p/q <= r/s for p, r >= 0 and q, s > 0, by comparing the continued
\* fractions (the cross products do not fit the checker's integers)
RECURSIVE FracLe(_, _, _, _)
FracLe(p, q, r, s) ==
    IF p \div q # r \div s THEN p \div q < r \div s
    ELSE IF p % q = 0 THEN TRUE
    ELSE IF r % s = 0 THEN FALSE
    ELSE FracLe(s, r % s, q, p % q)

\* cv = std_dev / mean_pred if mean_pred != 0 else 0, compared with a / b
\* (a >= 0, b > 0) on the squares: cv^2 = V / S1^2, and cv <= 0 when S1 <= 0
CvLe(ag, a, b) ==
    IF ag.S1 <= 0 THEN TRUE
    ELSE FracLe(ag.V, ag.S1 * ag.S1, a * a, b * b)

CvGe(ag, a, b) ==
    IF ag.S1 <= 0 THEN a = 0 /\ (ag.S1 = 0 \/ ag.V = 0)
    ELSE FracLe(a * a, b * b, ag.V, ag.S1 * ag.S1)

\* confidence = max(50, min(95, 100 - (cv * 200))), compared with num / den
ConfidenceGe(ag, num, den) ==
    IF num <= 50 * den THEN TRUE
    ELSE IF num > 95 * den THEN FALSE
    ELSE CvLe(ag, 100 * den - num, 200 * den)

ConfidenceLe(ag, num, den) ==
    IF num >= 95 * den THEN TRUE
    ELSE IF num < 50 * den THEN FALSE
    ELSE CvGe(ag, 100 * den - num, 200 * den)

\* round(confidence, 1) in tenths: the largest k with confidence >= k/10 - 0.05,
\* found by bisection; an exact tie goes to the even neighbour
RECURSIVE LargestTenth(_, _, _)
LargestTenth(ag, lo, hi) ==
    IF lo = hi THEN lo
    ELSE LET mid == (lo + hi + 1) \div 2
         IN  IF ConfidenceGe(ag, 2 * mid - 1, 20)
             THEN LargestTenth(ag, mid, hi)
             ELSE LargestTenth(ag, lo, mid - 1)

\* mutation: the lower clamp is lost, min(95, 100 - cv * 200) floored at 0
\* only by the range of the rounding search
RoundConfidence_NoFloor(ag) ==
    IF ConfidenceGe(ag, 1001, 20) THEN LargestTenth(ag, 500, 950) ELSE 0

\* mutation: the sign of the disagreement term slips, 45 + cv * 200
RoundConfidence_SignSlip(ag) ==
    LET k == LargestTenth(ag, 500, 950)
    IN  1450 - (IF k > 500 /\ ConfidenceLe(ag, 2 * k - 1, 20) /\ k % 2 = 1 THEN k - 1 ELSE k)

RoundConfidence(ag) ==
    LET k == LargestTenth(ag, 500, 950)
    IN  IF k > 500 /\ ConfidenceLe(ag, 2 * k - 1, 20) /\ k % 2 = 1 THEN k - 1 ELSE k

\* round(confidence, 1) of the agreement-based confidence, tenths:
\* 60.0 with a single prediction
Confidence(preds) ==
    IF Cardinality(DOMAIN preds) > 1 THEN RoundConfidence(Agreement(preds)) ELSE 600

\* mutation: the model-count condition of the high tier is >= 2
Quality_TwoModelsHigh(preds) ==
    LET n == Cardinality(DOMAIN preds)
        ge80 == IF n > 1 THEN ConfidenceGe(Agreement(preds), 80, 1) ELSE FALSE
        ge65 == IF n > 1 THEN ConfidenceGe(Agreement(preds), 65, 1) ELSE FALSE
    IN  IF ge80 /\ n >= 2 THEN "high"
        ELSE IF ge65 /\ n >= 2 THEN "medium"
        ELSE "low"

\* the quality tier, decided on the confidence before it is rounded
Quality(preds) ==
    LET n == Cardinality(DOMAIN preds)
        ge80 == IF n > 1 THEN ConfidenceGe(Agreement(preds), 80, 1) ELSE FALSE
        ge65 == IF n > 1 THEN ConfidenceGe(Agreement(preds), 65, 1) ELSE FALSE
    IN  IF ge80 /\ n >= 3 THEN "high"
        ELSE IF ge65 /\ n >= 2 THEN "medium"
        ELSE "low"

\* margin = max(1.5, volatility * 2), tenths of a percent; Python's max keeps
\* 1.5 when the comparison with NaN is false
Margin(vol) == IF vol = NaN THEN 15 ELSE IF vol * 2 > 15 THEN vol * 2 ELSE 15

\* the "no trained models" branch of ensemble_predict
DemoPrediction(cur, change) ==
    [status              |-> "ok",
     current_price       |-> cur * 100,
     predicted_price     |-> RoundHalfEven(cur * (10000 + change), 100),
     change_percent      |-> change,
     confidence          |-> 650,
     model_contributions |-> ("demo" :> 1000),
     upper_bound         |-> RoundHalfEven(cur * (10000 + change) * 102, 10000),
     lower_bound         |-> RoundHalfEven(cur * (10000 + change) * 98, 10000),
     quality             |-> "medium",
     ensemble_pred       |-> <<cur * (10000 + change), 10000>>]

\* the weighted blend of ensemble_predict
BlendPrediction(preds, cur, vol) ==
    LET acc == BlendLoop(Items(preds), preds,
                   [weighted_sum |-> 0, total_weight |-> 0, contributions |-> <<>>])
        \* ensemble_pred as the rational ep[1] / ep[2]
        ep  == IF acc.total_weight > 0
               THEN <<acc.weighted_sum, acc.total_weight>>
               ELSE <<cur, 1>>
        confidence == Confidence(preds)
        quality == Quality(preds)
        margin == Margin(vol)
    IN  [status              |-> "ok",
         current_price       |-> cur * 100,
         predicted_price     |-> RoundHalfEven(ep[1] * 100, ep[2]),
         change_percent      |-> RoundHalfEven((ep[1] - cur * ep[2]) * 10000, cur * ep[2]),
         confidence          |-> confidence,
         model_contributions |-> acc.contributions,
         upper_bound         |-> RoundHalfEven(ep[1] * (1000 + margin), ep[2] * 10),
         lower_bound         |-> RoundHalfEven(ep[1] * (1000 - margin), ep[2] * 10),
         quality             |-> quality,
         ensemble_pred       |-> ep]

EnsemblePredict(preds, cur, vol, change) ==
    IF DOMAIN preds = {} THEN DemoPrediction(cur, change)
    ELSE BlendPrediction(preds, cur, vol)

\* all prediction dicts the model-gathering part of ensemble_predict can build
PredictionDicts == UNION {[S -> ModelOutputs] : S \in SUBSET ModelNames}

\* predictions: what the models of the symbol returned; current_price:
\* float(data['Close'].iloc[-1]); volatility: data['Close'].pct_change().std()
\* * 100; demo_change: the draw of np.random.uniform(-2, 3)
EnsembleArgs ==
    [op : {"ensemble_predict"}, predictions : PredictionDicts,
     current_price : CurrentPrices, volatility : Volatilities,
     demo_change : DemoChanges]

InitEnsemble ==
    /\ args \in EnsembleArgs
    /\ result = NoResult

ensemble_predict ==
    /\ args.op = "ensemble_predict"
    /\ result = NoResult
    /\ result' = EnsemblePredict(args.predictions, args.current_price,
                                 args.volatility, args.demo_change)
    /\ UNCHANGED args

SpecEnsemble == InitEnsemble /\ [][ensemble_predict]_vars

----------------------------------------------------------------------------
(* Properties of ensemble_predict, checked under SpecEnsemble *)

\* the call was ensemble_predict, it has returned, and it blended at least
\* one model prediction
Blended ==
    /\ args.op = "ensemble_predict"
    /\ result # NoResult
    /\ DOMAIN args.predictions # {}

NumModels == Cardinality(DOMAIN args.predictions)

\* the weight table as the specification states it, hundredths
StatedWeight ==
    [m \in ModelNames |->
        CASE m = "lstm" -> 40 [] m = "gru" -> 30
          [] m = "xgboost" -> 20 [] m = "random_forest" -> 10]

PresentWeight == SumOver(StatedWeight, DOMAIN args.predictions)

\* C1: for every non-empty set of model predictions the values of
\* model_contributions sum to 100 within 0.1, each being the model's weight
\* over the total weight of all models present, times 100, rounded to one
\* decimal.
C1_ContributionsSumTo100 ==
    Blended =>
        /\ \A m \in DOMAIN args.predictions :
               result.model_contributions[m]
                   = RoundHalfEven(StatedWeight[m] * 1000, PresentWeight)
        /\ SumOver(result.model_contributions, DOMAIN args.predictions) \in 999..1001

\* C2: with at least one model present the blended price (before its
\* rounding) is sum(weight * prediction) / sum(weight) over exactly the
\* models present, with the stated weights.
C2_BlendIsWeightedMean ==
    Blended =>
        result.ensemble_pred[1] * PresentWeight
            = result.ensemble_pred[2]
                * SumOver([m \in DOMAIN args.predictions |->
                              StatedWeight[m] * args.predictions[m]],
                          DOMAIN args.predictions)

C2_Witness ==
    /\ Blended
    /\ args.predictions = [lstm |-> 110, gru |-> 90, xgboost |-> 100]
    /\ result.predicted_price = 10111

ConfidenceTable ==
    {[ag |-> Agreement(d), confidence |-> Confidence(d)] :
        d \in {e \in PredictionDicts : Cardinality(DOMAIN e) >= 2}}

\* the sign of cv = std / mean (0 when the mean is 0)
CvSign(ag) == IF ag.S1 = 0 \/ ag.V = 0 THEN 0 ELSE IF ag.S1 > 0 THEN 1 ELSE -1

\* cv of x is strictly smaller than cv of y
CvLess(x, y) ==
    IF CvSign(x) # CvSign(y) THEN CvSign(x) < CvSign(y)
    ELSE IF CvSign(x) = 0 THEN FALSE
    ELSE IF CvSign(x) = 1
         THEN ~FracLe(y.V, y.S1 * y.S1, x.V, x.S1 * x.S1)
         ELSE ~FracLe(x.V, x.S1 * x.S1, y.V, y.S1 * y.S1)

\* C9: of two prediction sets with two or more models each, the one with
\* the larger coefficient of variation never gets the higher confidence;
\* {lstm: 110, random_forest: 90} gets a strictly lower confidence than
\* {lstm: 100, gru: 100}.
C9_ConfidenceMonotonic ==
    (Blended /\ NumModels >= 2) =>
        /\ \A t \in ConfidenceTable :
              /\ CvLess(Agreement(args.predictions), t.ag)
                    => t.confidence <= result.confidence
              /\ CvLess(t.ag, Agreement(args.predictions))
                    => result.confidence <= t.confidence
        /\ args.predictions = [lstm |-> 110, random_forest |-> 90]
              => result.confidence < Confidence([lstm |-> 100, gru |-> 100])

C9_Witness ==
    /\ Blended
    /\ args.predictions = [lstm |-> 110, random_forest |-> 90]
    /\ result.confidence = 800

\* C10: the quality tier is high exactly when confidence >= 80 (cv <= 0.1)
\* and at least 3 models are present, medium exactly when that fails but
\* confidence >= 65 (cv <= 0.175) and at least 2 models are present, low
\* otherwise; a single-model blend is low, a two-model blend never high.
C10_QualityTier ==
    Blended =>
        LET ag   == Agreement(args.predictions)
            high == NumModels >= 3 /\ CvLe(ag, 1, 10)
            med  == ~high /\ NumModels >= 2 /\ CvLe(ag, 7, 40)
        IN  /\ result.quality = "high" <=> high
            /\ result.quality = "medium" <=> med
            /\ result.quality = "low" <=> (~high /\ ~med)
            /\ NumModels = 1 => result.quality = "low"
            /\ NumModels = 2 => result.quality # "high"

C10_Witness ==
    /\ Blended
    /\ NumModels = 3
    /\ result.quality = "high"
    /\ result.confidence < 950

----------------------------------------------------------------------------
(* TechnicalIndicators.get_overall_signal *)

\* indicator families of generate_signals
IndicatorNames == {"rsi", "macd", "trend", "bollinger"}

\* SignalResult.strength is declared 0-100
Strengths == {0, 50, 65, 100}

SignalResults == [signal : {"buy", "sell", "hold"}, strength : Strengths]

SignalDicts == UNION {[S -> SignalResults] : S \in SUBSET IndicatorNames}

RECURSIVE SumStrength(_, _)
SumStrength(sigs, names) ==
    IF names = {} THEN 0
    ELSE LET k == CHOOSE x \in names : TRUE
         IN  sigs[k].strength + SumStrength(sigs, names \ {k})

\* the sum of the strengths the loop adds to one bucket; a signal that is
\* neither "buy" nor "sell" goes to hold_score
Score(sigs, bucket) ==
    SumStrength(sigs, {k \in DOMAIN sigs :
        IF bucket = "hold" THEN sigs[k].signal \notin {"buy", "sell"}
        ELSE sigs[k].signal = bucket})

\* round(score / total * 100, 1) in tenths; the division raises when total = 0
Share(score, total) ==
    IF total = 0 THEN [status |-> "ZeroDivisionError"]
    ELSE [status |-> "ok", strength |-> RoundHalfEven(score * 1000, total)]

GetOverallSignal(sigs) ==
    IF DOMAIN sigs = {} THEN [status |-> "ok", signal |-> "hold", strength |-> 500]
    ELSE LET buy_score  == Score(sigs, "buy")
             sell_score == Score(sigs, "sell")
             hold_score == Score(sigs, "hold")
             total      == buy_score + sell_score + hold_score
             pick == IF buy_score > sell_score /\ buy_score > hold_score
                        THEN <<"buy", buy_score>>
                     ELSE IF sell_score > buy_score /\ sell_score > hold_score
                        THEN <<"sell", sell_score>>
                     ELSE <<"hold", hold_score>>
             share == Share(pick[2], total)
         IN  IF share.status = "ok"
             THEN [status |-> "ok", signal |-> pick[1], strength |-> share.strength]
             ELSE share

\* mutation: the first comparison of each test is not strict
GetOverallSignal_NonStrict(sigs) ==
    IF DOMAIN sigs = {} THEN [status |-> "ok", signal |-> "hold", strength |-> 500]
    ELSE LET buy_score  == Score(sigs, "buy")
             sell_score == Score(sigs, "sell")
             hold_score == Score(sigs, "hold")
             total      == buy_score + sell_score + hold_score
             pick == IF buy_score >= sell_score /\ buy_score > hold_score
                        THEN <<"buy", buy_score>>
                     ELSE IF sell_score >= buy_score /\ sell_score > hold_score
                        THEN <<"sell", sell_score>>
                     ELSE <<"hold", hold_score>>
             share == Share(pick[2], total)
         IN  IF share.status = "ok"
             THEN [status |-> "ok", signal |-> pick[1], strength |-> share.strength]
             ELSE share

InitSignal ==
    /\ args \in [op : {"get_overall_signal"}, signals : SignalDicts]
    /\ result = NoResult

get_overall_signal ==
    /\ args.op = "get_overall_signal"
    /\ result = NoResult
    /\ result' = GetOverallSignal(args.signals)
    /\ UNCHANGED args

SpecSignal == InitSignal /\ [][get_overall_signal]_vars

----------------------------------------------------------------------------
(* RealDataPredictor *)

\* what _calculate_technical_indicators returns for a frame of 20 bars or
\* more (prices in whole units, rsi 0-100, momentum_5 in percent,
\* volume_ratio in tenths, daily_vol = volatility / sqrt(252) in hundredths
\* of a percent); a shorter frame gives the empty dict <<>>
IndicatorDicts ==
    [sma_5 : {95, 105}, sma_20 : {100},
     rsi : {30, 50, 60, 70},
     macd : {-1, 1}, macd_signal : {0},
     bands : {<<100, 100>>, <<80, 120>>, <<95, 105>>, <<98, 130>>},
     momentum_5 : {-20, 0, 5},
     volume_ratio : {10, 15},
     daily_vol : {126},
     atr : {0, 2}]

\* draws of the normal noise term, hundredths of a percent
Noises == {-300, 0, 300}

Clip(x, lo, hi) == IF x < lo THEN lo ELSE IF x > hi THEN hi ELSE x

\* mutation: the neutral RSI branch weighs 0.2 like the other two
HeuristicSignals_NeutralRsiFullWeight(cur, ind) ==
    LET sma == IF ind.sma_5 # 0 /\ ind.sma_20 # 0
               THEN << <<IF ind.sma_5 > ind.sma_20 THEN 10 ELSE -10, 20>> >>
               ELSE <<>>
        rsi == IF ind.rsi < 35 THEN <<10, 20>>
               ELSE IF ind.rsi > 65 THEN <<-10, 20>>
               ELSE <<IF ind.rsi > 50 THEN 2 ELSE -2, 20>>
        macd == IF ind.macd > ind.macd_signal THEN <<5, 15>> ELSE <<-5, 15>>
        lo  == ind.bands[1]
        up  == ind.bands[2]
        below == IF up > lo THEN (cur - lo) * 10 < 2 * (up - lo)
                 ELSE (cur - lo) * 10 > 2 * (up - lo)
        above == IF up > lo THEN (cur - lo) * 10 > 8 * (up - lo)
                 ELSE (cur - lo) * 10 < 8 * (up - lo)
        bb  == IF up # lo
               THEN IF below THEN << <<10, 15>> >>
                    ELSE IF above THEN << <<-10, 15>> >>
                    ELSE <<>>
               ELSE <<>>
        mom == <<Clip(ind.momentum_5, -10, 10), 15>>
    IN  sma \o <<rsi, macd>> \o bb \o <<mom>>

\* the signals / weights lists of _generate_prediction: a sequence of
\* <<signal in tenths, weight in hundredths>>
HeuristicSignals(cur, ind) ==
    LET sma == IF ind.sma_5 # 0 /\ ind.sma_20 # 0
               THEN << <<IF ind.sma_5 > ind.sma_20 THEN 10 ELSE -10, 20>> >>
               ELSE <<>>
        rsi == IF ind.rsi < 35 THEN <<10, 20>>
               ELSE IF ind.rsi > 65 THEN <<-10, 20>>
               ELSE <<IF ind.rsi > 50 THEN 2 ELSE -2, 10>>
        macd == IF ind.macd > ind.macd_signal THEN <<5, 15>> ELSE <<-5, 15>>
        lo  == ind.bands[1]
        up  == ind.bands[2]
        \* pos = (current_price - lo) / (up - lo) against 0.2 and 0.8
        below == IF up > lo THEN (cur - lo) * 10 < 2 * (up - lo)
                 ELSE (cur - lo) * 10 > 2 * (up - lo)
        above == IF up > lo THEN (cur - lo) * 10 > 8 * (up - lo)
                 ELSE (cur - lo) * 10 < 8 * (up - lo)
        bb  == IF up # lo
               THEN IF below THEN << <<10, 15>> >>
                    ELSE IF above THEN << <<-10, 15>> >>
                    ELSE <<>>
               ELSE <<>>
        mom == <<Clip(ind.momentum_5, -10, 10), 15>>
    IN  sma \o <<rsi, macd>> \o bb \o <<mom>>

\* mutation: the horizon penalty of 4 points per extra day is left out
GeneratePrediction_NoHorizonPenalty(cur, ind, days_ahead, noise) ==
    IF ind = <<>>
    THEN [predicted_price |-> <<cur * (10000 + noise * days_ahead), 100>>,
          quality |-> "low", score |-> <<50, 1>>]
    ELSE LET sw == HeuristicSignals(cur, ind)
             total_weight == SumSeq([i \in 1..Len(sw) |-> sw[i][2]])
             ws  == IF total_weight > 0
                    THEN SumSeq([i \in 1..Len(sw) |-> sw[i][1] * sw[i][2]]) ELSE 0
             den == IF total_weight > 0 THEN total_weight ELSE 1
             change == ws * ind.daily_vol * days_ahead + noise * 10 * den
             raw == (50 + (IF ind.volume_ratio > 12 THEN 5 ELSE 0)) * den + 3 * Abs(ws)
             score == IF raw < 30 * den THEN 30 * den
                      ELSE IF raw > 95 * den THEN 95 * den ELSE raw
         IN  [predicted_price |-> <<cur * (100000 * den + change), 1000 * den>>,
              quality |-> IF score >= 75 * den THEN "high"
                          ELSE IF score >= 55 * den THEN "medium" ELSE "low",
              score |-> <<score, den>>,
              total_weight |-> total_weight,
              weighted_signal |-> <<ws, 10 * den>>]

\* _generate_prediction(current_price, indicators, days_ahead): returns
\* (predicted_price, quality, confidence_score); predicted_price is the
\* rational price[1] / price[2] in cents, the score the rational
\* score[1] / score[2]
GeneratePrediction(cur, ind, days_ahead, noise) ==
    IF ind = <<>>
    THEN [predicted_price |-> <<cur * (10000 + noise * days_ahead), 100>>,
          quality |-> "low", score |-> <<50, 1>>]
    ELSE LET sw == HeuristicSignals(cur, ind)
             total_weight == SumSeq([i \in 1..Len(sw) |-> sw[i][2]])
             \* weighted_signal = ws / (10 * den)
             ws  == IF total_weight > 0
                    THEN SumSeq([i \in 1..Len(sw) |-> sw[i][1] * sw[i][2]]) ELSE 0
             den == IF total_weight > 0 THEN total_weight ELSE 1
             \* predicted_change in hundredths of a percent, over 10 * den
             change == ws * ind.daily_vol * days_ahead + noise * 10 * den
             raw == (50 + (IF ind.volume_ratio > 12 THEN 5 ELSE 0)
                        - (days_ahead - 1) * 4) * den + 3 * Abs(ws)
             score == IF raw < 30 * den THEN 30 * den
                      ELSE IF raw > 95 * den THEN 95 * den ELSE raw
         IN  [predicted_price |-> <<cur * (100000 * den + change), 1000 * den>>,
              quality |-> IF score >= 75 * den THEN "high"
                          ELSE IF score >= 55 * den THEN "medium" ELSE "low",
              score |-> <<score, den>>,
              \* the locals total_weight (hundredths) and weighted_signal
              \* (the rational ws / (10 * den)), kept for inspection
              total_weight |-> total_weight,
              weighted_signal |-> <<ws, 10 * den>>]

\* _fallback_prediction: the simulated week with quality, confidence and
\* is_demo overwritten; final_price is the last simulated price in cents
FallbackPrediction(final_price) ==
    [status |-> "ok", path |-> "fallback", predicted_price |-> final_price,
     quality |-> "low", confidence |-> 400, is_demo |-> TRUE]

\* mutation: the demo marker is looked up under a key the result never has
IsDemo_WrongKey(ml_result) == "is_demo" \in DOMAIN ml_result.model_contributions

\* is_demo = ml_result.model_contributions.get("demo") is not None
IsDemo(ml_result) == "demo" \in DOMAIN ml_result.model_contributions

\* predict_next_day on a non-empty frame.  ensemble: "absent" (self.ensemble
\* is None), "raises" (the executor call raises an Exception) or "returns".
PredictNextDay(a) ==
    LET cur == a.current_price
        ml_result == IF a.ensemble = "returns"
                     THEN EnsemblePredict(a.predictions, cur, a.volatility, a.demo_change)
                     ELSE NoResult
        is_demo == IF a.ensemble = "returns" THEN IsDemo(ml_result) ELSE TRUE
    IN  IF ml_result # NoResult /\ ~is_demo
        THEN [status |-> "ok", path |-> "ensemble",
              predicted_price |-> ml_result.predicted_price,
              confidence |-> ml_result.confidence,
              quality |-> ml_result.quality,
              change_percent |-> ml_result.change_percent,
              model_contributions |-> ml_result.model_contributions,
              bounds |-> [lower |-> ml_result.lower_bound,
                          predicted |-> ml_result.predicted_price,
                          upper |-> ml_result.upper_bound, den |-> 1],
              is_demo |-> FALSE,
              ml_result |-> ml_result, heuristic |-> NoResult]
        ELSE LET h == GeneratePrediction(cur, a.indicators, 1, a.noise)
                 p == h.predicted_price
                 atr == IF a.indicators = <<>> THEN <<cur * 2, 100>>
                        ELSE <<a.indicators.atr, 1>>
                 \* atr * 1.5 in cents over the denominator of p
                 spread == (atr[1] * 150 * p[2]) \div atr[2]
             IN  [status |-> "ok", path |-> "heuristic",
                  predicted_price |-> RoundHalfEven(p[1], p[2]),
                  confidence |-> RoundHalfEven(h.score[1] * 10, h.score[2]),
                  quality |-> h.quality,
                  \* (predicted_price - current_price) / current_price * 100;
                  \* p[1] is a multiple of cur, so the quotient by cur is exact
                  change_percent |->
                      RoundHalfEven(((p[1] - cur * 100 * p[2]) \div cur) * 100, p[2]),
                  model_contributions |-> ("technical_analysis" :> 1000),
                  bounds |-> [lower |-> p[1] - spread, predicted |-> p[1],
                              upper |-> p[1] + spread, den |-> p[2]],
                  is_demo |-> TRUE,
                  ml_result |-> ml_result, heuristic |-> h]

\* simulated final prices of _fallback_weekly_prediction, cents
FallbackPrices == {148520, 251034}

\* the frames and collaborators predict_next_day can meet; a field the path
\* never reads is left out of the record
PredictArgs ==
    [op : {"predict_next_day"}, df : {"empty"}, final_price : FallbackPrices]
    \cup [op : {"predict_next_day"}, df : {"bars"}, current_price : CurrentPrices,
          ensemble : {"absent", "raises"},
          indicators : IndicatorDicts \cup {<<>>}, noise : Noises]
    \cup [op : {"predict_next_day"}, df : {"bars"}, current_price : CurrentPrices,
          ensemble : {"returns"}, predictions : {<<>>}, volatility : {NaN},
          demo_change : DemoChanges,
          indicators : IndicatorDicts \cup {<<>>}, noise : Noises]
    \cup [op : {"predict_next_day"}, df : {"bars"}, current_price : CurrentPrices,
          ensemble : {"returns"}, predictions : PredictionDicts \ {<<>>},
          volatility : Volatilities, demo_change : {0}]

InitPredict ==
    /\ args \in PredictArgs
    /\ result = NoResult

predict_next_day ==
    /\ args.op = "predict_next_day"
    /\ result = NoResult
    /\ result' = IF args.df = "empty" THEN FallbackPrediction(args.final_price)
                 ELSE PredictNextDay(args)
    /\ UNCHANGED args

SpecPredict == InitPredict /\ [][predict_next_day]_vars

----------------------------------------------------------------------------
(* Properties of get_overall_signal, checked under SpecSignal *)

Aggregated ==
    /\ args.op = "get_overall_signal"
    /\ result # NoResult
    /\ DOMAIN args.signals # {}

\* the sum of the strengths of one bucket, from the signals given
BucketSum(bucket) ==
    SumOver([k \in DOMAIN args.signals |->
                IF args.signals[k].signal = bucket
                THEN args.signals[k].strength ELSE 0],
            DOMAIN args.signals)

\* the decision rule: the answer for the given bucket sums
RuleHolds ==
    LET b == BucketSum("buy")
        s == BucketSum("sell")
        h == BucketSum("hold")
        winner == IF b > s /\ b > h THEN "buy"
                  ELSE IF s > b /\ s > h THEN "sell" ELSE "hold"
    IN  /\ result.signal = winner
        /\ result.strength = RoundHalfEven(BucketSum(winner) * 1000, b + s + h)

\* C3: buy only if buy_score is strictly greater than both other sums, sell
\* only if sell_score is, hold in every other case (every exact tie
\* included); the strength is the returned bucket's sum over the total of
\* all strengths, times 100, rounded to one decimal.
C3_StrictWinnerElseHold ==
    Aggregated => (result.status = "ok" /\ RuleHolds)

\* C4: for any non-empty set of signals with strengths in [0,100], the case
\* where every strength is 0 included, get_overall_signal returns without
\* raising and the strength of the result lies in [0,100].
C4_ReturnsStrengthInRange ==
    Aggregated => (result.status = "ok" /\ result.strength \in 0..1000)

\* The rule of C3 on every input on which the call returns.
OverallSignalRuleWhenReturned ==
    (Aggregated /\ result.status = "ok") => (RuleHolds /\ result.strength \in 0..1000)

----------------------------------------------------------------------------
(* Properties of predict_next_day, checked under SpecPredict *)

Predicted ==
    /\ args.op = "predict_next_day"
    /\ result # NoResult

\* no real model prediction is available: the ensemble object is absent,
\* ensemble_predict raises, or it returns its no-model demo result
NoRealModel ==
    /\ args.df = "bars"
    /\ \/ args.ensemble \in {"absent", "raises"}
       \/ args.ensemble = "returns" /\ DOMAIN args.predictions = {}

C6_BoundsOrdered ==
    (Predicted /\ args.df = "bars") =>
        /\ result.bounds.lower <= result.bounds.predicted
        /\ result.bounds.predicted <= result.bounds.upper
        /\ result.ml_result # NoResult =>
              /\ result.ml_result.lower_bound <= result.ml_result.predicted_price
              /\ result.ml_result.predicted_price <= result.ml_result.upper_bound

\* C7: confidence stays in [0,100] on every path: ensemble_predict gives
\* [50,95] with two or more models, 60 with one model and 65 for its
\* no-model result; _generate_prediction gives [30,95], or 50 without
\* indicators; _fallback_prediction gives 40.
C7_ConfidenceInRange ==
    Predicted =>
        /\ result.confidence \in 0..1000
        /\ args.df = "empty" => result.confidence = 400
        /\ (args.df = "bars" /\ result.ml_result # NoResult) =>
              LET n == Cardinality(DOMAIN args.predictions)
              IN  /\ n >= 2 => result.ml_result.confidence \in 500..950
                  /\ n = 1 => result.ml_result.confidence = 600
                  /\ n = 0 => result.ml_result.confidence = 650
        /\ (args.df = "bars" /\ result.path = "heuristic") =>
              IF args.indicators = <<>>
              THEN result.confidence = 500
              ELSE result.confidence \in 300..950

\* a blend of disagreeing models whose confidence was clamped from below
C7_Witness ==
    /\ Predicted
    /\ args.df = "bars"
    /\ result.path = "ensemble"
    /\ args.predictions = [lstm |-> 110, gru |-> 0]
    /\ result.confidence = 500

------

------

------

----------------------------------------------------------------------------
(* Indicator Engine: TechnicalIndicators (utils/technical_indicators.py)   *)
(*                                                                         *)
(* A value of a pandas Series is a float: here the exact rational <<n, d>> *)
(* in lowest terms with d > 0, or one of np.nan = <<0, 0>>,                *)
(* np.inf = <<1, 0>>, -np.inf = <<-1, 0>>.  The operators below follow     *)
(* IEEE arithmetic on these values (x / 0, nan propagation, comparisons   *)
(* with nan are false).  A Series is a sequence of floats, position 1      *)
(* first; iloc[-1] is the last position.                                   *)

nan == <<0, 0>>
inf == <<1, 0>>

RECURSIVE Gcd(_, _)
Gcd(a, b) == IF b = 0 THEN a ELSE Gcd(b, a % b)

Sign(x) == IF x > 0 THEN 1 ELSE IF x < 0 THEN -1 ELSE 0

\* the float n / d of two integers
Float(n, d) ==
    IF d = 0 THEN <<Sign(n), 0>>
    ELSE LET g == Gcd(Abs(n), Abs(d))
         IN  <<(Sign(d) * n) \div g, Abs(d) \div g>>

Num(k) == <<k, 1>>

IsNan(x) == x = nan
IsFinite(x) == x[2] # 0

FNeg(x) == <<-x[1], x[2]>>

FAdd(x, y) ==
    IF IsNan(x) \/ IsNan(y) THEN nan
    ELSE IF ~IsFinite(x) THEN (IF ~IsFinite(y) /\ y # x THEN nan ELSE x)
    ELSE IF ~IsFinite(y) THEN y
    ELSE LET l == (x[2] \div Gcd(x[2], y[2])) * y[2]
         IN  Float(x[1] * (l \div x[2]) + y[1] * (l \div y[2]), l)

FSub(x, y) == FAdd(x, FNeg(y))

FMul(x, y) ==
    IF IsNan(x) \/ IsNan(y) THEN nan
    ELSE IF ~IsFinite(x) \/ ~IsFinite(y) THEN <<Sign(x[1]) * Sign(y[1]), 0>>
    ELSE LET g == Gcd(Abs(x[1]), y[2])
             h == Gcd(Abs(y[1]), x[2])
         IN  Float((x[1] \div g) * (y[1] \div h), (x[2] \div h) * (y[2] \div g))

FDiv(x, y) ==
    IF IsNan(x) \/ IsNan(y) THEN nan
    ELSE IF ~IsFinite(y) THEN (IF IsFinite(x) THEN Num(0) ELSE nan)
    ELSE IF y[1] = 0 THEN <<Sign(x[1]), 0>>
    ELSE IF ~IsFinite(x) THEN <<Sign(x[1]) * Sign(y[1]), 0>>
    ELSE FMul(x, <<Sign(y[1]) * y[2], Abs(y[1])>>)

FLt(x, y) ==
    /\ ~IsNan(x)
    /\ ~IsNan(y)
    /\ IF ~IsFinite(x) /\ ~IsFinite(y) THEN x[1] < y[1]
       ELSE IF ~IsFinite(x) THEN x[1] < 0
       ELSE IF ~IsFinite(y) THEN y[1] > 0
       ELSE FAdd(x, FNeg(y))[1] < 0

FGt(x, y) == FLt(y, x)
FLe(x, y) == ~IsNan(x) /\ ~IsNan(y) /\ ~FLt(y, x)
FGe(x, y) == FLe(y, x)

FAbs(x) == <<Abs(x[1]), x[2]>>

FMax(x, y) == IF FLt(x, y) THEN y ELSE x

\* mutation: fillna left out, the series is returned as computed
Fillna_Skipped(s, value) == s

\* Series.fillna(value)
Fillna(s, value) == [i \in DOMAIN s |-> IF IsNan(s[i]) THEN value ELSE s[i]]

\* pd.Series(prices) of whole prices
ToSeries(prices) == [i \in 1..Len(prices) |-> Num(prices[i])]

\* Series.shift(k)[i]
Shift(s, k, i) == IF i - k \in DOMAIN s THEN s[i - k] ELSE nan

\* Series.diff(k)
Diff(s, k) == [i \in DOMAIN s |-> FSub(s[i], Shift(s, k, i))]

\* s[lo] + ... + s[hi]
RECURSIVE FSum(_, _, _)
FSum(s, lo, hi) ==
    IF lo > hi THEN Num(0)
    ELSE IF lo = hi THEN s[lo]
    ELSE LET mid == (lo + hi) \div 2
         IN  FAdd(FSum(s, lo, mid), FSum(s, mid + 1, hi))

\* Series.rolling(window).mean()[i]: nan until the window holds `window`
\* observations that are not nan
RollingMean(s, window, i) ==
    IF i < window \/ (\E j \in (i - window + 1)..i : IsNan(s[j])) THEN nan
    ELSE FDiv(FSum(s, i - window + 1, i), Num(window))

Rolling(s, window) == [i \in DOMAIN s |-> RollingMean(s, window, i)]

\* calculate_rsi(prices, period)
CalculateRsi(prices, period) ==
    IF Len(prices) < period + 1
    THEN [i \in 1..Len(prices) |-> nan]
    ELSE LET s     == ToSeries(prices)
             delta == Diff(s, 1)
             n     == Len(prices)
             \* delta.where(cond, 0) keeps delta where cond holds
             ups   == [i \in 1..n |-> IF FGt(delta[i], Num(0)) THEN delta[i] ELSE Num(0)]
             downs == [i \in 1..n |-> FNeg(IF FLt(delta[i], Num(0)) THEN delta[i] ELSE Num(0))]
             gain  == Rolling(ups, period)
             loss  == Rolling(downs, period)
             rs    == [i \in 1..n |->
                          FDiv(gain[i], IF loss[i] = Num(0) THEN nan ELSE loss[i])]
             rsi   == [i \in 1..n |->
                          FSub(Num(100), FDiv(Num(100), FAdd(Num(1), rs[i])))]
         IN  Fillna(rsi, Num(50))

\* precision of a square root: thousandths
SqrtScale == 1000

\* the least k in lo..hi with k * k >= n
RECURSIVE LeastRoot(_, _, _)
LeastRoot(n, lo, hi) ==
    IF lo >= hi THEN lo
    ELSE LET mid == (lo + hi) \div 2
         IN  IF mid * mid >= n THEN LeastRoot(n, lo, mid)
             ELSE LeastRoot(n, mid + 1, hi)

\* np.sqrt of a float, to the next thousandth (0 only for 0)
FSqrt(x) ==
    IF IsNan(x) \/ x[1] < 0 THEN nan
    ELSE IF ~IsFinite(x) THEN x
    ELSE LET scaled == x[1] * SqrtScale * SqrtScale
         IN  Float(LeastRoot((scaled + x[2] - 1) \div x[2], 0, 30 * SqrtScale),
                   SqrtScale)

\* Series.rolling(window).std()[i], the sample standard deviation (ddof = 1)
RollingStd(s, window, i) ==
    IF i < window \/ (\E j \in (i - window + 1)..i : IsNan(s[j])) THEN nan
    ELSE LET sum == FSum(s, i - window + 1, i)
             sq  == FSum([j \in DOMAIN s |-> FMul(s[j], s[j])], i - window + 1, i)
             dev == FSub(sq, FDiv(FMul(sum, sum), Num(window)))
         IN  FSqrt(FDiv(dev, Num(window - 1)))

\* calculate_bollinger_bands(prices, period, std_dev)
CalculateBollingerBands(prices, period, std_dev) ==
    LET s      == ToSeries(prices)
        n      == Len(prices)
        middle == Rolling(s, period)
        std    == [i \in 1..n |-> RollingStd(s, period, i)]
        upper  == [i \in 1..n |-> FAdd(middle[i], FMul(std[i], Num(std_dev)))]
        lower  == [i \in 1..n |-> FSub(middle[i], FMul(std[i], Num(std_dev)))]
        bandwidth == [i \in 1..n |->
                        FMul(FDiv(FSub(upper[i], lower[i]), middle[i]), Num(100))]
        percent_b == [i \in 1..n |->
                        FMul(FDiv(FSub(s[i], lower[i]), FSub(upper[i], lower[i])),
                             Num(100))]
    IN  [upper |-> upper, middle |-> middle, lower |-> lower,
         bandwidth |-> Fillna(bandwidth, Num(0)),
         percent_b |-> Fillna(percent_b, Num(50))]

\* max over one row of pd.concat([...], axis=1): nan entries are skipped
RECURSIVE RowMax(_)
RowMax(row) ==
    IF row = <<>> THEN nan
    ELSE LET rest == RowMax(Tail(row))
         IN  IF IsNan(Head(row)) THEN rest
             ELSE IF IsNan(rest) THEN Head(row)
             ELSE FMax(Head(row), rest)

\* the true range series shared by calculate_atr and calculate_adx
TrueRange(high, low, close) ==
    [i \in DOMAIN high |->
        RowMax(<<FSub(high[i], low[i]),
                 FAbs(FSub(high[i], Shift(close, 1, i))),
                 FAbs(FSub(low[i], Shift(close, 1, i)))>>)]

\* calculate_atr(high, low, close, period)
CalculateAtr(high, low, close, period) ==
    Rolling(TrueRange(ToSeries(high), ToSeries(low), ToSeries(close)), period)

\* Series.cumsum(): a nan entry stays nan and is left out of the running sum
RECURSIVE Cumsum(_, _, _)
Cumsum(s, i, acc) ==
    IF i \notin DOMAIN s THEN <<>>
    ELSE IF IsNan(s[i]) THEN <<nan>> \o Cumsum(s, i + 1, acc)
    ELSE <<FAdd(acc, s[i])>> \o Cumsum(s, i + 1, FAdd(acc, s[i]))

\* np.sign
FSign(x) == IF IsNan(x) THEN nan ELSE Num(Sign(x[1]))

\* calculate_obv(prices, volume)
CalculateObv(prices, volume) ==
    LET s == ToSeries(prices)
        v == ToSeries(volume)
        d == Diff(s, 1)
        direction == [i \in DOMAIN s |-> IF i = 1 THEN Num(0) ELSE FSign(d[i])]
    IN  Cumsum([i \in DOMAIN s |-> FMul(direction[i], v[i])], 1, Num(0))

\* Series.ewm(span, adjust=False).mean(): y[1] = x[1],
\* y[i] = (1 - alpha) * y[i-1] + alpha * x[i] with alpha = 2 / (span + 1).
\* A bar equal to the running mean leaves the mean where it is, so a run of
\* such bars is written out in one step.
RECURSIVE EwmFrom(_, _, _, _)
EwmFrom(s, span, i, prev) ==
    IF i \notin DOMAIN s THEN <<>>
    ELSE IF i > 1 /\ s[i] = prev
    THEN LET moved == {j \in DOMAIN s : j > i /\ s[j] # prev}
             next  == IF moved = {} THEN Len(s) + 1
                      ELSE CHOOSE j \in moved : \A k \in moved : j <= k
         IN  [k \in 1..(next - i) |-> prev] \o EwmFrom(s, span, next, prev)
    ELSE LET y == IF i = 1 THEN s[1]
                  ELSE FAdd(FMul(Float(span - 1, span + 1), prev),
                            FMul(Float(2, span + 1), s[i]))
         IN  <<y>> \o EwmFrom(s, span, i + 1, y)

EwmMean(s, span) == EwmFrom(s, span, 1, nan)

\* calculate_macd(prices, fast_period, slow_period, signal_period)
CalculateMacd(prices, fast_period, slow_period, signal_period) ==
    LET s == ToSeries(prices)
        ema_fast == EwmMean(s, fast_period)
        ema_slow == EwmMean(s, slow_period)
        macd_line == [i \in DOMAIN s |-> FSub(ema_fast[i], ema_slow[i])]
        signal_line == EwmMean(macd_line, signal_period)
    IN  [macd_line |-> macd_line, signal_line |-> signal_line,
         histogram |-> [i \in DOMAIN s |-> FSub(macd_line[i], signal_line[i])]]

\* Series.rolling(window).min()[i] and .max()[i]
RECURSIVE Extreme(_, _, _, _)
Extreme(s, lo, hi, wantMax) ==
    IF lo = hi THEN s[lo]
    ELSE LET rest == Extreme(s, lo + 1, hi, wantMax)
         IN  IF wantMax THEN (IF FLt(s[lo], rest) THEN rest ELSE s[lo])
             ELSE (IF FLt(rest, s[lo]) THEN rest ELSE s[lo])

RollingExtreme(s, window, i, wantMax) ==
    IF i < window \/ (\E j \in (i - window + 1)..i : IsNan(s[j])) THEN nan
    ELSE Extreme(s, i - window + 1, i, wantMax)

\* Series.replace(0, np.nan)
ReplaceZero(x) == IF x = Num(0) THEN nan ELSE x

\* calculate_stochastic(high, low, close, period, smooth_k, smooth_d)
CalculateStochastic(high, low, close, period, smooth_k, smooth_d) ==
    LET h == ToSeries(high)
        l == ToSeries(low)
        c == ToSeries(close)
        n == Len(close)
        lowest_low   == [i \in 1..n |-> RollingExtreme(l, period, i, FALSE)]
        highest_high == [i \in 1..n |-> RollingExtreme(h, period, i, TRUE)]
        raw == [i \in 1..n |->
                   FDiv(FMul(Num(100), FSub(c[i], lowest_low[i])),
                        ReplaceZero(FSub(highest_high[i], lowest_low[i])))]
        k == Rolling(raw, smooth_k)
        d == Rolling(k, smooth_d)
    IN  [k |-> Fillna(k, Num(50)), d |-> Fillna(d, Num(50))]

\* calculate_sma(prices, windows): one series per window
CalculateSma(prices, windows) ==
    [w \in windows |-> Rolling(ToSeries(prices), w)]

\* calculate_ema(prices, windows)
CalculateEma(prices, windows) ==
    [w \in windows |-> EwmMean(ToSeries(prices), w)]

\* calculate_adx(high, low, close, period)
CalculateAdx(high, low, close, period) ==
    LET h == ToSeries(high)
        l == ToSeries(low)
        c == ToSeries(close)
        n == Len(close)
        atr == Rolling(TrueRange(h, l, c), period)
        up_move   == [i \in 1..n |-> FSub(h[i], Shift(h, 1, i))]
        down_move == [i \in 1..n |-> FSub(Shift(l, 1, i), l[i])]
        plus_dm  == [i \in 1..n |->
                        IF FGt(up_move[i], down_move[i]) /\ FGt(up_move[i], Num(0))
                        THEN up_move[i] ELSE Num(0)]
        minus_dm == [i \in 1..n |->
                        IF FGt(down_move[i], up_move[i]) /\ FGt(down_move[i], Num(0))
                        THEN down_move[i] ELSE Num(0)]
        plus_di  == [i \in 1..n |->
                        FMul(Num(100), FDiv(RollingMean(plus_dm, period, i), atr[i]))]
        minus_di == [i \in 1..n |->
                        FMul(Num(100), FDiv(RollingMean(minus_dm, period, i), atr[i]))]
        dx == [i \in 1..n |->
                  FDiv(FMul(Num(100), FAbs(FSub(plus_di[i], minus_di[i]))),
                       ReplaceZero(FAdd(plus_di[i], minus_di[i])))]
    IN  [adx |-> Fillna(Rolling(dx, period), Num(0)),
         di_plus |-> Fillna(plus_di, Num(0)),
         di_minus |-> Fillna(minus_di, Num(0))]

\* calculate_vwap(high, low, close, volume)
CalculateVwap(high, low, close, volume) ==
    LET n == Len(close)
        v == ToSeries(volume)
        typical_price == [i \in 1..n |->
                             FDiv(Num(high[i] + low[i] + close[i]), Num(3))]
        pv  == Cumsum([i \in 1..n |-> FMul(typical_price[i], v[i])], 1, Num(0))
        vol == Cumsum(v, 1, Num(0))
    IN  [i \in 1..n |-> FDiv(pv[i], vol[i])]

\* find_support_resistance(prices, window, num_levels): both masks are
\* boolean Series, and Series.iloc refuses a boolean Series as indexer
\* (NotImplementedError on an integer index, ValueError on any other)
\* before it looks at the values
FindSupportResistance(prices, window, num_levels) ==
    [status |-> "raises"]

\* round(x, 2) of a float, in cents
Round2(x) == RoundHalfEven(x[1] * 100, x[2])

\* mutation: s3 measured from the pivot to the low
CalculatePivotPoints_S3FromLow(high, low, close) ==
    LET H == Float(high, 100)
        L == Float(low, 100)
        pivot == FDiv(FAdd(FAdd(H, L), Float(close, 100)), Num(3))
    IN  [pivot |-> Round2(pivot),
         r1 |-> Round2(FSub(FMul(Num(2), pivot), L)),
         r2 |-> Round2(FAdd(pivot, FSub(H, L))),
         r3 |-> Round2(FAdd(H, FMul(Num(2), FSub(pivot, L)))),
         s1 |-> Round2(FSub(FMul(Num(2), pivot), H)),
         s2 |-> Round2(FSub(pivot, FSub(H, L))),
         s3 |-> Round2(FSub(L, FMul(Num(2), FSub(pivot, L))))]

\* calculate_pivot_points(high, low, close): the arguments and the levels
\* returned are in cents
CalculatePivotPoints(high, low, close) ==
    LET H == Float(high, 100)
        L == Float(low, 100)
        pivot == FDiv(FAdd(FAdd(H, L), Float(close, 100)), Num(3))
    IN  [pivot |-> Round2(pivot),
         r1 |-> Round2(FSub(FMul(Num(2), pivot), L)),
         r2 |-> Round2(FAdd(pivot, FSub(H, L))),
         r3 |-> Round2(FAdd(H, FMul(Num(2), FSub(pivot, L)))),
         s1 |-> Round2(FSub(FMul(Num(2), pivot), H)),
         s2 |-> Round2(FSub(pivot, FSub(H, L))),
         s3 |-> Round2(FSub(L, FMul(Num(2), FSub(H, pivot))))]

\* detect_golden_cross(sma_50, sma_200)[i]
DetectGoldenCross(sma_50, sma_200, i) ==
    /\ FGt(sma_50[i], sma_200[i])
    /\ FLe(Shift(sma_50, 1, i), Shift(sma_200, 1, i))

\* detect_death_cross(sma_50, sma_200)[i]
DetectDeathCross(sma_50, sma_200, i) ==
    /\ FLt(sma_50[i], sma_200[i])
    /\ FGe(Shift(sma_50, 1, i), Shift(sma_200, 1, i))

\* identify_trend(prices, period)
IdentifyTrend(prices, period) ==
    LET s == ToSeries(prices)
        n == Len(prices)
    IN  IF n < period + 5 THEN "sideways"
        ELSE LET sma_current == RollingMean(s, period, n)
                 sma_slope == FSub(sma_current, RollingMean(s, period, n - 5))
                 slope_threshold == FMul(sma_current, Float(1, 1000))
             IN  IF FGt(sma_slope, slope_threshold) /\ FGt(s[n], sma_current)
                 THEN "uptrend"
                 ELSE IF FLt(sma_slope, FNeg(slope_threshold)) /\ FLt(s[n], sma_current)
                 THEN "downtrend"
                 ELSE "sideways"

\* --- the calls made to the engine ---

MaxBars == 4

\* closing prices; the data model asks for prices >= 0, the functions take
\* any number
PriceSet == {-1, 0, 1, 3}

PriceSeries == UNION {[1..n -> PriceSet] : n \in 1..MaxBars}

\* window lengths; 14 is the default period of RSI, ATR, ADX and Stochastic
Periods == {2, 3, 14}

\* OHLCV rows with low <= close <= high and volume >= 0
BarSet ==
    {[high |-> 2, low |-> 1, close |-> 1, volume |-> 5],
     [high |-> 2, low |-> 1, close |-> 2, volume |-> 0],
     [high |-> 3, low |-> 3, close |-> 3, volume |-> 5],
     [high |-> 1, low |-> 0, close |-> 0, volume |-> 2]}

Frames == UNION {[1..n -> BarSet] : n \in 1..MaxBars}

Column(df, name) == [i \in 1..Len(df) |-> df[i][name]]

\* session high, low, close in cents
PivotPrices == {9000, 9999, 10000, 10001, 11000}

IndicatorArgs ==
    [op : {"calculate_rsi", "calculate_bollinger_bands"},
     prices : PriceSeries, period : Periods]
    \* the default spans on up to 3 bars (12, 26, 9 give rationals beyond
    \* TLC's integers on longer series), short spans on every series
    \cup [op : {"calculate_macd", "calculate_ema"},
          prices : {s \in PriceSeries : Len(s) <= 3}, spans : {<<12, 26, 9>>}]
    \cup [op : {"calculate_macd", "calculate_ema"},
          prices : PriceSeries, spans : {<<2, 3, 2>>}]
    \cup [op : {"calculate_sma", "identify_trend", "find_support_resistance"},
          prices : PriceSeries, period : {1, 2, 20}]
    \cup [op : {"calculate_stochastic", "calculate_adx", "calculate_atr"},
          df : Frames, period : Periods]
    \cup [op : {"calculate_obv", "calculate_vwap"}, df : Frames]
    \cup [op : {"calculate_pivot_points"},
          high : PivotPrices, low : PivotPrices, close : PivotPrices]

InitIndicators ==
    /\ args \in IndicatorArgs
    /\ result = NoResult

Returns(value) == [status |-> "ok", value |-> value]

calculate_rsi ==
    /\ args.op = "calculate_rsi"
    /\ result = NoResult
    /\ result' = Returns(CalculateRsi(args.prices, args.period))
    /\ UNCHANGED args

calculate_macd ==
    /\ args.op = "calculate_macd"
    /\ result = NoResult
    /\ result' = Returns(CalculateMacd(args.prices, args.spans[1], args.spans[2],
                                       args.spans[3]))
    /\ UNCHANGED args

calculate_stochastic ==
    /\ args.op = "calculate_stochastic"
    /\ result = NoResult
    /\ result' = Returns(CalculateStochastic(Column(args.df, "high"),
                     Column(args.df, "low"), Column(args.df, "close"),
                     args.period, 3, 3))
    /\ UNCHANGED args

calculate_sma ==
    /\ args.op = "calculate_sma"
    /\ result = NoResult
    /\ result' = Returns(CalculateSma(args.prices, {args.period, 50}))
    /\ UNCHANGED args

calculate_ema ==
    /\ args.op = "calculate_ema"
    /\ result = NoResult
    /\ result' = Returns(CalculateEma(args.prices, {args.spans[1], args.spans[2]}))
    /\ UNCHANGED args

calculate_adx ==
    /\ args.op = "calculate_adx"
    /\ result = NoResult
    /\ result' = Returns(CalculateAdx(Column(args.df, "high"),
                     Column(args.df, "low"), Column(args.df, "close"), args.period))
    /\ UNCHANGED args

calculate_bollinger_bands ==
    /\ args.op = "calculate_bollinger_bands"
    /\ result = NoResult
    /\ result' = Returns(CalculateBollingerBands(args.prices, args.period, 2))
    /\ UNCHANGED args

calculate_atr ==
    /\ args.op = "calculate_atr"
    /\ result = NoResult
    /\ result' = Returns(CalculateAtr(Column(args.df, "high"),
                     Column(args.df, "low"), Column(args.df, "close"), args.period))
    /\ UNCHANGED args

calculate_obv ==
    /\ args.op = "calculate_obv"
    /\ result = NoResult
    /\ result' = Returns(CalculateObv(Column(args.df, "close"),
                                      Column(args.df, "volume")))
    /\ UNCHANGED args

calculate_vwap ==
    /\ args.op = "calculate_vwap"
    /\ result = NoResult
    /\ result' = Returns(CalculateVwap(Column(args.df, "high"),
                     Column(args.df, "low"), Column(args.df, "close"),
                     Column(args.df, "volume")))
    /\ UNCHANGED args

find_support_resistance ==
    /\ args.op = "find_support_resistance"
    /\ result = NoResult
    /\ result' = FindSupportResistance(args.prices, args.period, 3)
    /\ UNCHANGED args

calculate_pivot_points ==
    /\ args.op = "calculate_pivot_points"
    /\ result = NoResult
    /\ result' = Returns(CalculatePivotPoints(args.high, args.low, args.close))
    /\ UNCHANGED args

identify_trend ==
    /\ args.op = "identify_trend"
    /\ result = NoResult
    /\ result' = Returns(IdentifyTrend(args.prices, args.period))
    /\ UNCHANGED args

NextIndicators ==
    \/ calculate_rsi
    \/ calculate_macd
    \/ calculate_stochastic
    \/ calculate_sma
    \/ calculate_ema
    \/ calculate_adx
    \/ calculate_bollinger_bands
    \/ calculate_atr
    \/ calculate_obv
    \/ calculate_vwap
    \/ find_support_resistance
    \/ calculate_pivot_points
    \/ identify_trend

SpecIndicators == InitIndicators /\ [][NextIndicators]_vars

----------------------------------------------------------------------------
(* Signal Generator: generate_signals, then get_overall_signal *)

SignalResult(signal, strength) == [signal |-> signal, strength |-> strength]

\* mutation: the two cross detections are left out
SmaCrossSignal_LevelOnly(close) ==
    LET n    == Len(close)
        smas == CalculateSma(close, {50, 200})
    IN  IF n >= 200
        THEN [signals |->
                 "sma_cross" :> (IF FGt(smas[50][n], smas[200][n])
                                 THEN SignalResult("buy", 55)
                                 ELSE SignalResult("sell", 55)),
              golden |-> DetectGoldenCross(smas[50], smas[200], n),
              death  |-> DetectDeathCross(smas[50], smas[200], n)]
        ELSE [signals |-> <<>>, golden |-> FALSE, death |-> FALSE]

\* the SMA cross part of generate_signals (lines 607-620): the sma_cross
\* entry it adds, and what the two detectors said about the last bar
SmaCrossSignal(close) ==
    LET n    == Len(close)
        smas == CalculateSma(close, {50, 200})
    IN  IF n >= 200
        THEN LET golden == DetectGoldenCross(smas[50], smas[200], n)
                 death  == DetectDeathCross(smas[50], smas[200], n)
             IN  [signals |->
                      "sma_cross" :> (IF golden THEN SignalResult("buy", 90)
                                      ELSE IF death THEN SignalResult("sell", 90)
                                      ELSE IF FGt(smas[50][n], smas[200][n])
                                      THEN SignalResult("buy", 55)
                                      ELSE SignalResult("sell", 55)),
                  golden |-> golden, death |-> death]
        ELSE [signals |-> <<>>, golden |-> FALSE, death |-> FALSE]

\* generate_signals(close); high, low and volume are accepted and not read
GenerateSignals(close) ==
    LET n == Len(close)
        current_rsi == CalculateRsi(close, 14)[n]
        macd == CalculateMacd(close, 12, 26, 9)
        macd_hist == macd.histogram[n]
        macd_hist_prev == IF n > 1 THEN macd.histogram[n - 1] ELSE Num(0)
        trend == IdentifyTrend(close, 20)
        bb == CalculateBollingerBands(close, 20, 2)
        current_price == Num(close[n])
        cross == SmaCrossSignal(close)
        signals ==
            [rsi |-> IF FGt(current_rsi, Num(70)) THEN SignalResult("sell", 80)
                     ELSE IF FLt(current_rsi, Num(30)) THEN SignalResult("buy", 80)
                     ELSE SignalResult("hold", 50),
             macd |-> IF FGt(macd_hist, Num(0)) /\ FGt(macd_hist, macd_hist_prev)
                      THEN SignalResult("buy", 70)
                      ELSE IF FLt(macd_hist, Num(0)) /\ FLt(macd_hist, macd_hist_prev)
                      THEN SignalResult("sell", 70)
                      ELSE SignalResult("hold", 50),
             trend |-> IF trend = "uptrend" THEN SignalResult("buy", 60)
                       ELSE IF trend = "downtrend" THEN SignalResult("sell", 60)
                       ELSE SignalResult("hold", 50),
             bollinger |-> IF FGt(current_price, bb.upper[n])
                           THEN SignalResult("sell", 65)
                           ELSE IF FLt(current_price, bb.lower[n])
                           THEN SignalResult("buy", 65)
                           ELSE SignalResult("hold", 50)]
    IN  [status |-> "ok", signals |-> signals @@ cross.signals,
         golden |-> cross.golden, death |-> cross.death]

\* numbers of bars around the windows of generate_signals (RSI 15, trend 25,
\* SMA 50 and 200)
BarCounts == {1, 2, 3, 15, 25, 199, 200, 201}

BasePrices == {10, 100}

Offsets == {-4, -1, 0, 2, 5}

\* a flat history at `base` whose last two bars close at base + d1 and
\* base + d2
Closes(n, base, d1, d2) ==
    [i \in 1..n |-> IF i = n THEN base + d2
                    ELSE IF i = n - 1 THEN base + d1 ELSE base]

CloseSeries ==
    {Closes(n, base, d1, d2) :
        n \in BarCounts, base \in BasePrices, d1 \in Offsets, d2 \in Offsets}

InitSignals ==
    /\ args \in [op : {"generate_signals"}, close : CloseSeries]
    /\ result = NoResult

generate_signals ==
    /\ args.op = "generate_signals"
    /\ result = NoResult
    /\ result' = GenerateSignals(args.close)
    /\ UNCHANGED args

\* overall = get_overall_signal(signals), as analyze_stock and the analysis
\* route call it on what generate_signals returned
overall_signal ==
    /\ args.op = "generate_signals"
    /\ result # NoResult
    /\ "overall" \notin DOMAIN result
    /\ result' = [overall |-> GetOverallSignal(result.signals)] @@ result
    /\ UNCHANGED args

SpecSignals == InitSignals /\ [][generate_signals \/ overall_signal]_vars

----------------------------------------------------------------------------
(* RealDataPredictor._generate_prediction called on its own *)

\* indicator dicts of a frame of 20 bars or more, with the values around
\* every threshold of _generate_prediction (units as in IndicatorDicts)
HeuristicIndicators ==
    [sma_5 : {95, 105}, sma_20 : {100},
     rsi : {20, 35, 50, 51, 65, 80},
     macd : {-1, 0, 1}, macd_signal : {0},
     bands : {<<100, 100>>, <<80, 120>>, <<95, 105>>, <<98, 130>>},
     momentum_5 : {-20, -5, 0, 5, 20},
     volume_ratio : {12, 13},
     daily_vol : {126},
     atr : {2}]

\* days_ahead; every caller in the service passes the default 1
Horizons == {1, 2, 5, 10}

InitHeuristic ==
    /\ args \in [op : {"generate_prediction"}, current_price : CurrentPrices,
                 indicators : HeuristicIndicators \cup {<<>>},
                 days_ahead : Horizons, noise : Noises]
    /\ result = NoResult

generate_prediction ==
    /\ args.op = "generate_prediction"
    /\ result = NoResult
    /\ result' = [status |-> "ok"] @@
                 GeneratePrediction(args.current_price, args.indicators,
                                    args.days_ahead, args.noise)
    /\ UNCHANGED args

SpecHeuristic == InitHeuristic /\ [][generate_prediction]_vars

----------------------------------------------------------------------------
(* Properties of the Indicator Engine, checked under SpecIndicators *)

Called(op) ==
    /\ args.op = op
    /\ result # NoResult

\* C11: calculate_rsi on a series with fewer than period + 1 bars returns
\* the neutral value 50 at every position of the series.
C11_ShortSeriesIsNeutral ==
    (Called("calculate_rsi") /\ Len(args.prices) < args.period + 1) =>
        /\ result.status = "ok"
        /\ \A i \in 1..Len(args.prices) : result.value[i] = Num(50)

\* With period + 1 bars or more every RSI value is a number in [0,100].
RsiInRangeWhenLongEnough ==
    (Called("calculate_rsi") /\ Len(args.prices) >= args.period + 1) =>
        \A i \in 1..Len(args.prices) :
            /\ FGe(result.value[i], Num(0))
            /\ FLe(result.value[i], Num(100))

\* C12: for a price series of any length >= 1, every value of the series
\* calculate_rsi returns is a defined number in [0,100].
C12_RsiInRange ==
    Called("calculate_rsi") =>
        \A i \in 1..Len(args.prices) :
            /\ IsFinite(result.value[i])
            /\ FGe(result.value[i], Num(0))
            /\ FLe(result.value[i], Num(100))

\* C13: for a price series of any length >= 1, the bands of
\* calculate_bollinger_bands satisfy upper >= middle >= lower at every
\* position, the positions before the window is full included.
C13_BandsOrdered ==
    Called("calculate_bollinger_bands") =>
        \A i \in 1..Len(args.prices) :
            /\ FGe(result.value.upper[i], result.value.middle[i])
            /\ FGe(result.value.middle[i], result.value.lower[i])

\* The bands are ordered at every position whose window is full.
BandsOrderedOnFullWindows ==
    Called("calculate_bollinger_bands") =>
        \A i \in args.period..Len(args.prices) :
            /\ FGe(result.value.upper[i], result.value.middle[i])
            /\ FGe(result.value.middle[i], result.value.lower[i])

NonNegative(prices) == \A i \in 1..Len(prices) : prices[i] >= 0

\* the window ending at position i holds one repeated price
FlatWindow(prices, period, i) ==
    \A j \in (i - period + 1)..i : prices[j] = prices[i]

\* C14: for non-negative prices and any length >= 1, percent_b and bandwidth
\* are finite at every position; a window that is not full, a flat window
\* and a zero middle band resolve to percent_b = 50 and bandwidth = 0.
C14_PercentBAndBandwidthFinite ==
    (Called("calculate_bollinger_bands") /\ NonNegative(args.prices)) =>
        \A i \in 1..Len(args.prices) :
            LET b == result.value
                degenerate == \/ i < args.period
                              \/ FlatWindow(args.prices, args.period, i)
                              \/ b.middle[i] = Num(0)
            IN  /\ IsFinite(b.percent_b[i])
                /\ IsFinite(b.bandwidth[i])
                /\ degenerate => /\ b.percent_b[i] = Num(50)
                                 /\ b.bandwidth[i] = Num(0)

\* a full window of zero prices after a window that moved: the middle band
\* is 0 and both divisions are 0 / 0
C14_Witness ==
    /\ Called("calculate_bollinger_bands")
    /\ args.prices = <<3, 0, 0>>
    /\ args.period = 2
    /\ result.value.middle[3] = Num(0)
    /\ result.value.percent_b[1] = Num(50)
    /\ result.value.percent_b[2] # Num(50)
    /\ result.value.percent_b[3] = Num(50)
    /\ result.value.bandwidth[3] = Num(0)

\* C15: with at least 2 bars the latest values of calculate_atr and
\* calculate_obv are defined numbers (not NaN), whatever the relation
\* between the number of bars and the ATR period.
C15_LatestAtrObvDefined ==
    (/\ Called("calculate_atr") \/ Called("calculate_obv")
     /\ Len(args.df) >= 2) =>
        ~IsNan(result.value[Len(args.df)])

\* The latest OBV is defined for every frame, the latest ATR once the frame
\* holds `period` bars.
LatestObvDefinedAtrWhenFull ==
    /\ Called("calculate_obv") => ~IsNan(result.value[Len(args.df)])
    /\ (Called("calculate_atr") /\ Len(args.df) >= args.period) =>
           ~IsNan(result.value[Len(args.df)])

\* the call was given one bar
OneBar ==
    /\ "prices" \in DOMAIN args => Len(args.prices) = 1
    /\ "df" \in DOMAIN args => Len(args.df) = 1

\* C16: given a price series of length 1, no Indicator Engine function
\* raises and each returns its documented default: RSI and Stochastic 50,
\* ADX 0, bandwidth 0 and percent_b 50, MACD 0, EMA the price itself,
\* OBV 0, trend "sideways".
C16_OneBarReturnsDefaults ==
    (result # NoResult /\ args.op # "calculate_pivot_points" /\ OneBar) =>
        /\ result.status = "ok"
        /\ args.op = "calculate_rsi" => result.value = <<Num(50)>>
        /\ args.op = "calculate_stochastic" =>
               result.value = [k |-> <<Num(50)>>, d |-> <<Num(50)>>]
        /\ args.op = "calculate_adx" =>
               result.value = [adx |-> <<Num(0)>>, di_plus |-> <<Num(0)>>,
                               di_minus |-> <<Num(0)>>]
        /\ args.op = "calculate_bollinger_bands" =>
               /\ result.value.bandwidth = <<Num(0)>>
               /\ result.value.percent_b = <<Num(50)>>
        /\ args.op = "calculate_macd" =>
               result.value = [macd_line |-> <<Num(0)>>, signal_line |-> <<Num(0)>>,
                               histogram |-> <<Num(0)>>]
        /\ args.op = "calculate_ema" =>
               \A w \in DOMAIN result.value :
                   result.value[w] = <<Num(args.prices[1])>>
        /\ args.op = "calculate_obv" => result.value = <<Num(0)>>
        /\ args.op = "identify_trend" => result.value = "sideways"

\* On one bar every function other than calculate_rsi and
\* find_support_resistance returns, with the default listed in C16.
OneBarDefaultsElsewhere ==
    args.op \notin {"calculate_rsi", "find_support_resistance"} =>
        C16_OneBarReturnsDefaults

\* C18: calculate_pivot_points returns pivot = (H+L+C)/3, R1 = 2P-L,
\* R2 = P+(H-L), R3 = H+2(P-L), S1 = 2P-H, S2 = P-(H-L), S3 = L-2(H-P),
\* each rounded to 2 decimals; H=110, L=90, C=100 gives pivot 100.0,
\* R1 110.0, S1 90.0; and with L <= C <= H the levels are ordered
\* S3 <= S2 <= S1 <= pivot <= R1 <= R2 <= R3.
C18_PivotPoints ==
    Called("calculate_pivot_points") =>
        LET H == args.high
            L == args.low
            sum == args.high + args.low + args.close    \* 3 * pivot, cents
            v == result.value
        IN  /\ v.pivot = RoundHalfEven(sum, 3)
            /\ v.r1 = RoundHalfEven(2 * sum - 3 * L, 3)
            /\ v.r2 = RoundHalfEven(sum + 3 * (H - L), 3)
            /\ v.r3 = RoundHalfEven(3 * H + 2 * (sum - 3 * L), 3)
            /\ v.s1 = RoundHalfEven(2 * sum - 3 * H, 3)
            /\ v.s2 = RoundHalfEven(sum - 3 * (H - L), 3)
            /\ v.s3 = RoundHalfEven(3 * L - 2 * (3 * H - sum), 3)
            /\ (H = 11000 /\ L = 9000 /\ args.close = 10000) =>
                   (v.pivot = 10000 /\ v.r1 = 11000 /\ v.s1 = 9000)
            /\ (L <= args.close /\ args.close <= H) =>
                   /\ v.s3 <= v.s2
                   /\ v.s2 <= v.s1
                   /\ v.s1 <= v.pivot
                   /\ v.pivot <= v.r1
                   /\ v.r1 <= v.r2
                   /\ v.r2 <= v.r3

\* a session whose pivot is not a whole number of cents and lies off the
\* middle of the range
C18_Witness ==
    /\ Called("calculate_pivot_points")
    /\ args.high = 11000
    /\ args.low = 9000
    /\ args.close = 10001
    /\ result.value.pivot = 10000
    /\ result.value.r3 = 13001
    /\ result.value.s3 = 7001

----------------------------------------------------------------------------
(* Properties of generate_signals, checked under SpecSignals *)

Generated ==
    /\ args.op = "generate_signals"
    /\ result # NoResult

\* close[lo] + ... + close[hi]
RECURSIVE SumRange(_, _, _)
SumRange(close, lo, hi) ==
    IF lo > hi THEN 0
    ELSE IF lo = hi THEN close[lo]
    ELSE LET mid == (lo + hi) \div 2
         IN  SumRange(close, lo, mid) + SumRange(close, mid + 1, hi)

\* SMA50 - SMA200 at bar i, times 200 (i >= 200)
SmaGap(close, i) == 4 * SumRange(close, i - 49, i) - SumRange(close, i - 199, i)

\* C17: generate_signals emits sma_cross if and only if at least 200 bars
\* are given; then a golden cross on the last bar gives buy(90), else a
\* death cross on the last bar gives sell(90), else SMA50 > SMA200 gives
\* buy(55), else sell(55); a golden and a death cross are never both
\* detected on the same bar.
C17_SmaCrossRule ==
    Generated =>
        LET close == args.close
            n == Len(close)
        IN  /\ "sma_cross" \in DOMAIN result.signals <=> n >= 200
            /\ ~(result.golden /\ result.death)
            /\ n >= 200 =>
                  LET golden == SmaGap(close, n) > 0 /\ n > 200
                                   /\ SmaGap(close, n - 1) <= 0
                      death  == SmaGap(close, n) < 0 /\ n > 200
                                   /\ SmaGap(close, n - 1) >= 0
                  IN  /\ result.golden = golden
                      /\ result.death = death
                      /\ result.signals["sma_cross"] =
                            IF golden THEN SignalResult("buy", 90)
                            ELSE IF death THEN SignalResult("sell", 90)
                            ELSE IF SmaGap(close, n) > 0 THEN SignalResult("buy", 55)
                            ELSE SignalResult("sell", 55)

\* 201 bars whose SMA50 moves above the SMA200 on the last bar
C17_Witness ==
    /\ Generated
    /\ Len(args.close) = 201
    /\ SmaGap(args.close, 200) <= 0
    /\ SmaGap(args.close, 201) > 0
    /\ result.signals["sma_cross"] = SignalResult("buy", 90)

\* On one bar generate_signals returns four hold(50) signals and
\* get_overall_signal returns hold(100.0).
OneBarSignalsHold ==
    (Generated /\ Len(args.close) = 1) =>
        /\ result.status = "ok"
        /\ result.signals = [k \in IndicatorNames |-> SignalResult("hold", 50)]
        /\ "overall" \in DOMAIN result =>
               result.overall = [status |-> "ok", signal |-> "hold", strength |-> 1000]

----------------------------------------------------------------------------
(* Properties of _generate_prediction, checked under SpecHeuristic *)

\* the call was made with a non-empty indicator dict
Scored ==
    /\ args.op = "generate_prediction"
    /\ result # NoResult
    /\ args.indicators # <<>>

\* C19: with indicators, confidence = clamp(50 + 30 * |weighted_signal|
\* + (5 if volume_ratio > 1.2 else 0) - 4 * (days_ahead - 1), 30, 95),
\* quality is high when that score >= 75, medium when >= 55, low
\* otherwise; the noise term changes the predicted price only.
C19_HeuristicConfidence ==
    Scored =>
        LET ws  == result.weighted_signal
            den == ws[2]
            \* the unclamped score over den
            raw == 50 * den + 30 * Abs(ws[1])
                   + (IF args.indicators.volume_ratio > 12 THEN 5 * den ELSE 0)
                   - 4 * (args.days_ahead - 1) * den
            clamped == IF raw < 30 * den THEN 30 * den
                       ELSE IF raw > 95 * den THEN 95 * den ELSE raw
            score == result.score
        IN  /\ score[1] * den = clamped * score[2]
            /\ result.quality = IF clamped >= 75 * den THEN "high"
                                ELSE IF clamped >= 55 * den THEN "medium"
                                ELSE "low"
            /\ \A noise \in Noises :
                   LET other == GeneratePrediction(args.current_price,
                                    args.indicators, args.days_ahead, noise)
                   IN  /\ other.score = score
                       /\ other.quality = result.quality
                       /\ noise # args.noise =>
                              other.predicted_price # result.predicted_price

\* one extra day takes a score of at least 75 below 75 and the
\* quality from high to medium
C19_Witness ==
    /\ Scored
    /\ args.days_ahead = 2
    /\ args.indicators.volume_ratio = 13
    /\ result.quality = "medium"
    /\ result.score[1] * 4 < 75 * 4 * result.score[2]
    /\ result.score[1] * 4 >= 71 * 4 * result.score[2]

\* the contribution (tenths) and the weight (hundredths) of each source of
\* the table, <<>> for a source that does not contribute
SourceTable(cur, ind) ==
    LET lo == ind.bands[1]
        up == ind.bands[2]
    IN  [sma  |-> <<IF ind.sma_5 > ind.sma_20 THEN 10 ELSE -10, 20>>,
         rsi  |-> IF ind.rsi < 35 THEN <<10, 20>>
                  ELSE IF ind.rsi > 65 THEN <<-10, 20>>
                  ELSE <<IF ind.rsi > 50 THEN 2 ELSE -2, 10>>,
         macd |-> <<IF ind.macd > ind.macd_signal THEN 5 ELSE -5, 15>>,
         \* position = (price - lower) / (upper - lower), upper > lower
         bb   |-> IF up = lo THEN <<>>
                  ELSE IF 10 * (cur - lo) < 2 * (up - lo) THEN <<10, 15>>
                  ELSE IF 10 * (cur - lo) > 8 * (up - lo) THEN <<-10, 15>>
                  ELSE <<>>,
         mom  |-> <<IF ind.momentum_5 > 10 THEN 10
                    ELSE IF ind.momentum_5 < -10 THEN -10
                    ELSE ind.momentum_5, 15>>]

-----------------------------------------------------------------------------
(* The Indicator Engine called twice in a row on the same arguments *)

\* generate_signals followed by get_overall_signal on the signals it
\* returned
WithOverall(generated) ==
    [overall |-> GetOverallSignal(generated.signals)] @@ generated

\* What one call of the engine returns for the call `a`.
Engine(a) ==
    CASE a.op = "calculate_rsi" -> Returns(CalculateRsi(a.prices, a.period))
      [] a.op = "calculate_macd" ->
            Returns(CalculateMacd(a.prices, a.spans[1], a.spans[2], a.spans[3]))
      [] a.op = "calculate_ema" ->
            Returns(CalculateEma(a.prices, {a.spans[1], a.spans[2]}))
      [] a.op = "calculate_sma" -> Returns(CalculateSma(a.prices, {a.period, 50}))
      [] a.op = "calculate_bollinger_bands" ->
            Returns(CalculateBollingerBands(a.prices, a.period, 2))
      [] a.op = "identify_trend" -> Returns(IdentifyTrend(a.prices, a.period))
      [] a.op = "find_support_resistance" ->
            FindSupportResistance(a.prices, a.period, 3)
      [] a.op = "calculate_stochastic" ->
            Returns(CalculateStochastic(Column(a.df, "high"), Column(a.df, "low"),
                                        Column(a.df, "close"), a.period, 3, 3))
      [] a.op = "calculate_adx" ->
            Returns(CalculateAdx(Column(a.df, "high"), Column(a.df, "low"),
                                 Column(a.df, "close"), a.period))
      [] a.op = "calculate_atr" ->
            Returns(CalculateAtr(Column(a.df, "high"), Column(a.df, "low"),
                                 Column(a.df, "close"), a.period))
      [] a.op = "calculate_obv" ->
            Returns(CalculateObv(Column(a.df, "close"), Column(a.df, "volume")))
      [] a.op = "calculate_vwap" ->
            Returns(CalculateVwap(Column(a.df, "high"), Column(a.df, "low"),
                                  Column(a.df, "close"), Column(a.df, "volume")))
      [] a.op = "calculate_pivot_points" ->
            Returns(CalculatePivotPoints(a.high, a.low, a.close))
      [] a.op = "generate_signals" -> WithOverall(GenerateSignals(a.close))

\* mutation: `direction` is the caller's price Series, so the store
\* direction.iloc[0] = 0 lands in the caller's first close
ObvStore_IntoPrices(df) ==
    LET objects == [prices |-> Column(df, "close"),
                    direction |-> [i \in 1..Len(df) |->
                        FSign(Diff(ToSeries(Column(df, "close")), 1)[i])]]
        stored == [objects EXCEPT !.prices[1] = 0]
    IN  [i \in 1..Len(df) |-> [df[i] EXCEPT !.close = stored.prices[i]]]

\* The only store of the engine is direction.iloc[0] = 0 in calculate_obv.
\* direction is the Series that np.sign(prices.diff()) has just built, an
\* object of its own: the store leaves the caller's prices as they were.
\* The operator gives the caller's frame after the store.
ObvStore(df) ==
    LET objects == [prices |-> Column(df, "close"),
                    direction |-> [i \in 1..Len(df) |->
                        FSign(Diff(ToSeries(Column(df, "close")), 1)[i])]]
        stored == [objects EXCEPT !.direction[1] = Num(0)]
    IN  [i \in 1..Len(df) |-> [df[i] EXCEPT !.close = stored.prices[i]]]

\* The caller's arguments after one call.  The functions are static methods
\* of a class without attributes; every other pandas call they make
\* (pd.Series, diff, shift, where, rolling, ewm, replace, fillna, cumsum)
\* returns a new Series.
InputsAfter(a) ==
    IF a.op = "calculate_obv" THEN [a EXCEPT !.df = ObvStore(a.df)] ELSE a

\* the longest series a repeated call is given
TwiceBars == MaxBars - 1

TwiceSeries == UNION {[1..n -> PriceSet] : n \in 1..TwiceBars}

TwiceFrames == UNION {[1..n -> BarSet] : n \in 1..TwiceBars}

\* the calls of IndicatorArgs on at most TwiceBars bars, and the signal
\* generator on histories of 1, 25 and 201 bars
TwiceArgs ==
    [op : {"calculate_rsi", "calculate_bollinger_bands"},
     prices : TwiceSeries, period : Periods]
    \cup [op : {"calculate_macd", "calculate_ema"},
          prices : {s \in TwiceSeries : Len(s) <= 3}, spans : {<<12, 26, 9>>}]
    \cup [op : {"calculate_macd", "calculate_ema"},
          prices : TwiceSeries, spans : {<<2, 3, 2>>}]
    \cup [op : {"calculate_sma", "identify_trend", "find_support_resistance"},
          prices : TwiceSeries, period : {1, 2, 20}]
    \cup [op : {"calculate_stochastic", "calculate_adx", "calculate_atr"},
          df : TwiceFrames, period : Periods]
    \cup [op : {"calculate_obv", "calculate_vwap"}, df : TwiceFrames]
    \cup [op : {"calculate_pivot_points"},
          high : PivotPrices, low : PivotPrices, close : PivotPrices]
    \cup [op : {"generate_signals"},
          close : {s \in CloseSeries : Len(s) \in {1, 25, 201}}]

InitTwice ==
    /\ args \in TwiceArgs
    /\ result = NoResult

first_call ==
    /\ result = NoResult
    /\ result' = [status |-> "called", given |-> args, first |-> Engine(args)]
    /\ args' = InputsAfter(args)

second_call ==
    /\ result.status = "called"
    /\ "second" \notin DOMAIN result
    /\ result' = [second |-> Engine(args)] @@ result
    /\ args' = InputsAfter(args)

SpecTwice == InitTwice /\ [][first_call \/ second_call]_vars

-----------------------------------------------------------------------------
(* Properties of repeated calls, checked under SpecTwice *)

-----------------------------------------------------------------------------
(* Two prediction calls on the RealDataPredictor singleton                 *)
(*                                                                         *)
(* real_data_predictor is one object for the process (line 414) and the    *)
(* routes await its coroutines on one event loop.  A call gives up control *)
(* only where it awaits the executor (lines 106-107); what lies between    *)
(* two such points is one action.  Here `args` holds, next to the symbols  *)
(* of the two calls, the objects they share: self._data_cache and numpy's  *)
(* process-wide generator np.random.                                       *)
(***************************************************************************)

Calls == {1, 2}

Symbols == {"TCS", "INFY", "ZZZ", "YYY"}

\* what ticker.history returns for a symbol: a frame of bars, or the empty
\* frame for a symbol Yahoo does not list
History(symbol) == IF symbol \in {"TCS", "INFY"} THEN "frame" ELSE "empty"

\* hash(symbol + "weekly") % 2**32: fixed for the life of the process
Seed(symbol) ==
    CASE symbol = "TCS" -> 11 [] symbol = "INFY" -> 12
      [] symbol = "ZZZ" -> 13 [] symbol = "YYY" -> 14

\* the states np.random can be in when the first call starts
StartSeeds == {0, 1}

\* The pos-th number of the generator seeded with `seed`: a function of the
\* seed and the position only.
Stream(seed, pos) == (seed * 37 + pos * 11) % 101

\* one prediction draws eight numbers: np.random.normal of line 228 and the
\* seven of _generate_forecast_list, or np.random.random of line 389 and the
\* seven np.random.normal of line 393
Draws(generator) == [i \in 1..8 |-> Stream(generator.seed, generator.pos + i - 1)]

AfterDraws(generator) == [generator EXCEPT !.pos = @ + 8]

\* predict_next_day on a frame with no trained models: _generate_prediction
\* and _generate_forecast_list, which read np.random as they find it
TechnicalPrediction(symbol, generator) ==
    [status |-> "ok", symbol |-> symbol, is_demo |-> TRUE,
     name |-> "Industries Ltd", noise |-> Draws(generator)]

\* _fallback_weekly_prediction: np.random.seed(hash(symbol + "weekly") % 2**32),
\* then the draws
FallbackWeeklyPrediction(symbol) ==
    [status |-> "ok", symbol |-> symbol, is_demo |-> TRUE,
     name |-> "(Simulated)", noise |-> Draws([seed |-> Seed(symbol), pos |-> 0])]

NoAccess == [reads |-> {}, writes |-> {}]

InitConcurrent ==
    /\ args \in [op : {"predict_next_day"},
                 symbol : [Calls -> Symbols],
                 start_seed : StartSeeds,
                 np_random : [seed : StartSeeds, pos : {0}],
                 _data_cache : {{}},
                 pc : {[c \in Calls |-> "start"]},
                 df : {[c \in Calls |-> "none"]},
                 accesses : {[c \in Calls |-> NoAccess]}]
    /\ args.np_random.seed = args.start_seed
    /\ result = [c \in Calls |-> NoResult]

Reads(a, c, object) == [a EXCEPT ![c].reads = @ \cup {object}]

Writes(a, c, object) == [a EXCEPT ![c].writes = @ \cup {object}]

\* _fetch_historical_data up to its first await: a cached frame is returned
\* at once (the entries of this section are seconds old)
begin_fetch(c) ==
    /\ args.pc[c] = "start"
    /\ IF args.symbol[c] \in args._data_cache
       THEN args' = [args EXCEPT !.pc[c] = "fetched", !.df[c] = "frame",
                         !.accesses = Reads(@, c, "_data_cache")]
       ELSE args' = [args EXCEPT !.pc[c] = "fetching",
                         !.accesses = Reads(@, c, "_data_cache")]
    /\ UNCHANGED result

\* the executor has returned ticker.history: a frame that is not empty is
\* stored in the cache
end_fetch(c) ==
    /\ args.pc[c] = "fetching"
    /\ IF History(args.symbol[c]) = "frame"
       THEN args' = [args EXCEPT !.pc[c] = "fetched", !.df[c] = "frame",
                         !._data_cache = @ \cup {args.symbol[c]},
                         !.accesses = Writes(@, c, "_data_cache")]
       ELSE args' = [args EXCEPT !.pc[c] = "fetched", !.df[c] = "empty"]
    /\ UNCHANGED result

\* the rest of predict_next_day: no await in it gives up control
predict(c) ==
    /\ args.pc[c] = "fetched"
    /\ IF args.df[c] = "empty"
       THEN /\ result' = [result EXCEPT ![c] = FallbackWeeklyPrediction(args.symbol[c])]
            /\ args' = [args EXCEPT !.pc[c] = "done",
                   !.np_random = AfterDraws([seed |-> Seed(args.symbol[c]), pos |-> 0]),
                   !.accesses = Writes(Reads(@, c, "np.random"), c, "np.random")]
       ELSE /\ result' = [result EXCEPT
                   ![c] = TechnicalPrediction(args.symbol[c], args.np_random)]
            /\ args' = [args EXCEPT !.pc[c] = "done",
                   !.np_random = AfterDraws(@),
                   !.accesses = Writes(Reads(@, c, "np.random"), c, "np.random")]

NextConcurrent == \E c \in Calls : begin_fetch(c) \/ end_fetch(c) \/ predict(c)

SpecConcurrent == InitConcurrent /\ [][NextConcurrent]_vars

-----------------------------------------------------------------------------
(* Properties of concurrent predictions, checked under SpecConcurrent *)

\* what call c returns when no other call runs in the process
Alone(c) ==
    IF History(args.symbol[c]) = "empty"
    THEN FallbackWeeklyPrediction(args.symbol[c])
    ELSE TechnicalPrediction(args.symbol[c], [seed |-> args.start_seed, pos |-> 0])

\* C22: two concurrent prediction calls share no mutable state: neither
\* reads or writes an object the other writes, and each returns what it
\* returns when it runs alone, whatever the interleaving; no call reseeds or
\* consumes a process-wide generator the other's result depends on.
C22_NoSharedMutableState ==
    /\ \A c \in Calls : result[c] # NoResult => result[c] = Alone(c)
    /\ \A c, d \in Calls :
          c # d => (args.accesses[c].reads \cup args.accesses[c].writes)
                       \cap args.accesses[d].writes = {}

\* What does hold: a call that falls back reseeds the generator and draws
\* without giving up control, so its own numbers depend on its symbol only.
FallbackIsRepeatable ==
    \A c \in Calls :
        (result[c] # NoResult /\ args.df[c] = "empty") => result[c] = Alone(c)
-----------------------------------------------------------------------------
(* SmartDataFetcher.get_stock_price (services/smart_data_fetcher.py)       *)
(*                                                                         *)
(* A symbol is the sequence of its parts, "RELIANCE.NS" = <<"RELIANCE",    *)
(* ".NS">>, so that endswith and `in` can be computed.  `args` holds the   *)
(* call and what the two data sources will answer; `result` the progress   *)
(* of the call: how often each source was fetched and what came back.      *)
(***************************************************************************)

FetcherSymbols ==
    {<<"AAPL">>, <<"RELIANCE", ".NS">>, <<"TCS", ".BO">>, <<"BTC", "-", "USD">>,
     <<"ETH", "-", "USDT">>, <<"BRK", "-", "B">>}

\* symbol.endswith(('.NS', '.BO'))
IsIndianStock(symbol) == symbol[Len(symbol)] \in {".NS", ".BO"}

\* '-' in symbol and ('USD' in symbol or 'USDT' in symbol)
IsCrypto(symbol) ==
    /\ \E i \in 1..Len(symbol) : symbol[i] = "-"
    /\ \E i \in 1..Len(symbol) : symbol[i] \in {"USD", "USDT"}

GetBestSource(symbol) ==
    IF IsIndianStock(symbol) THEN "yahoo_finance"
    ELSE IF IsCrypto(symbol) THEN "financial_datasets"
    ELSE "financial_datasets"

\* mutation: the except branch re-raises whatever the source
FallsBack_Never(source) == FALSE

\* the test of the except branch: only a failed financial_datasets fetch is
\* retried on Yahoo
FallsBack(source) == source = "financial_datasets"

\* what a source answers: a price, nothing (the client returned an empty
\* answer) or an exception
PrimaryAnswers == {"price", "empty", "APIError"}

YahooAnswers == {"price", "KeyError"}

\* _fetch_price_financial_datasets: an empty answer is a ValueError
FetchPriceFinancialDatasets(answer) ==
    CASE answer = "price" -> [status |-> "ok", source |-> "financial_datasets"]
      [] answer = "empty" -> [status |-> "raised", error |-> "ValueError"]
      [] OTHER -> [status |-> "raised", error |-> answer]

FetchPriceYahoo(answer) ==
    IF answer = "price" THEN [status |-> "ok", source |-> "yahoo_finance"]
    ELSE [status |-> "raised", error |-> answer]

InitFetcher ==
    /\ args \in [op : {"get_stock_price"}, symbol : FetcherSymbols,
                 source : {"auto", "financial_datasets", "yahoo_finance"},
                 primary : PrimaryAnswers, yahoo : YahooAnswers]
    /\ result = NoResult

NoFetches == [financial_datasets |-> 0, yahoo_finance |-> 0]

\* get_stock_price up to the end of its try block
try_source ==
    /\ args.op = "get_stock_price"
    /\ result = NoResult
    /\ LET source == IF args.source = "auto" THEN GetBestSource(args.symbol)
                     ELSE args.source
           got == IF source = "financial_datasets"
                  THEN FetchPriceFinancialDatasets(args.primary)
                  ELSE FetchPriceYahoo(args.yahoo)
           fetches == [NoFetches EXCEPT ![IF source = "financial_datasets"
                         THEN "financial_datasets" ELSE "yahoo_finance"] = 1]
       IN  result' = IF got.status = "ok"
                     THEN [status |-> "ok", source |-> source, fetches |-> fetches,
                           value |-> got]
                     ELSE [status |-> "except", source |-> source,
                           fetches |-> fetches, error |-> got.error]
    /\ UNCHANGED args

\* the except branch: fall back to Yahoo, or raise e
except_branch ==
    /\ args.op = "get_stock_price"
    /\ result.status = "except"
    /\ IF FallsBack(result.source)
       THEN LET got == FetchPriceYahoo(args.yahoo)
                fetches == [result.fetches EXCEPT !.yahoo_finance = @ + 1]
            IN  result' = IF got.status = "ok"
                          THEN [status |-> "ok", source |-> result.source,
                                fetches |-> fetches, value |-> got]
                          ELSE [status |-> "raised", source |-> result.source,
                                fetches |-> fetches, error |-> got.error]
       ELSE result' = [result EXCEPT !.status = "raised"]
    /\ UNCHANGED args

SpecFetcher == InitFetcher /\ [][try_source \/ except_branch]_vars

-----------------------------------------------------------------------------
(* Properties of get_stock_price, checked under SpecFetcher *)

\* the call has returned or raised
FetcherDone == result # NoResult /\ result.status \in {"ok", "raised"}

\* the call is for financial_datasets: named, or chosen by "auto" for a
\* symbol without the .NS / .BO suffix
ForFinancialDatasets ==
    \/ args.source = "financial_datasets"
    \/ args.source = "auto" /\ args.symbol[Len(args.symbol)] \notin {".NS", ".BO"}

\* C23: with source financial_datasets (explicit, or chosen by "auto" for a
\* symbol without .NS/.BO suffix) a primary fetch that raises is followed
\* by exactly one Yahoo fetch, whose result is what the call returns; when
\* the source is Yahoo Finance and it raises, nothing else is fetched and
\* its exception propagates.
C23_FallbackToYahoo ==
    FetcherDone =>
        /\ (ForFinancialDatasets /\ args.primary # "price") =>
              /\ result.fetches = [financial_datasets |-> 1, yahoo_finance |-> 1]
              /\ args.yahoo = "price" =>
                    result.status = "ok" /\ result.value.source = "yahoo_finance"
              /\ args.yahoo # "price" =>
                    result.status = "raised" /\ result.error = args.yahoo
        /\ (~ForFinancialDatasets /\ args.yahoo # "price") =>
              /\ result.fetches = [financial_datasets |-> 0, yahoo_finance |-> 1]
              /\ result.status = "raised"
              /\ result.error = args.yahoo

\* C23 witness: "auto" on a US symbol, the primary client raised and the
\* call returned Yahoo's price after one Yahoo fetch.
C23_Witness ==
    /\ FetcherDone
    /\ args.source = "auto"
    /\ args.symbol = <<"AAPL">>
    /\ args.primary = "APIError"
    /\ result.status = "ok"
    /\ result.value.source = "yahoo_finance"
    /\ result.fetches.yahoo_finance = 1
-----------------------------------------------------------------------------
(* WebSocketManager (services/websocket_manager.py)                        *)
(*                                                                         *)
(* `args` holds the manager: its dicts active_connections, subscriptions,  *)
(* symbol_subscribers and price_cache, a dict being a function on its      *)
(* keys.  `result` is what the last operation returned.  Each operation    *)
(* is given the set `broken` of the clients whose socket raises in         *)
(* send_json during it.  A symbol is a number; -n is the lower-case        *)
(* spelling of n.                                                          *)
(***************************************************************************)

MAX_SUBSCRIPTIONS_PER_CLIENT == 20

Clients == {"a", "b"}

\* s.upper()
Upper(s) == IF s < 0 THEN -s ELSE s

Range(a, b) == [i \in 1..(b - a + 1) |-> a + i - 1]

\* 20 symbols at once, one symbol, one symbol spelled twice
SubscribeRequests == {Range(1, 20), <<21>>, <<-21, 21>>}

UnsubscribeRequests == {<<-21>>, <<7>>}

BroadcastSymbols == {-21}

\* WebSocketManager()
NewManager ==
    [op |-> "WebSocketManager", active_connections |-> <<>>,
     subscriptions |-> <<>>, symbol_subscribers |-> <<>>, price_cache |-> {}]

\* d[key] = value
Put(d, key, value) == [k \in DOMAIN d \cup {key} |-> IF k = key THEN value ELSE d[k]]

\* del d[key]
Del(d, key) == [k \in DOMAIN d \ {key} |-> d[k]]

\* send_to_client raises: the client has a socket and its send_json raises
SendFails(m, client_id, broken) ==
    client_id \in DOMAIN m.active_connections /\ client_id \in broken

\* connect, once websocket.accept() has returned
Connect(m, client_id) ==
    [m EXCEPT !.active_connections = Put(@, client_id, "websocket"),
              !.subscriptions = Put(@, client_id, {})]

\* the loop of disconnect over the client's symbols
DiscardFrom(symbol_subscribers, symbols, client_id) ==
    [s \in DOMAIN symbol_subscribers |->
        IF s \in symbols THEN symbol_subscribers[s] \ {client_id}
        ELSE symbol_subscribers[s]]

Disconnect(m, client_id) ==
    LET unsubscribed ==
            IF client_id \in DOMAIN m.subscriptions
            THEN [m EXCEPT !.symbol_subscribers =
                               DiscardFrom(@, m.subscriptions[client_id], client_id),
                           !.subscriptions = Del(@, client_id)]
            ELSE m
    IN  IF client_id \in DOMAIN unsubscribed.active_connections
        THEN [unsubscribed EXCEPT !.active_connections = Del(@, client_id)]
        ELSE unsubscribed

\* new_symbols = [s.upper() for s in symbols
\*                if s.upper() not in self.subscriptions[client_id]]
RECURSIVE NewSymbols(_, _, _)
NewSymbols(symbols, have, i) ==
    IF i > Len(symbols) THEN <<>>
    ELSE IF Upper(symbols[i]) \in have THEN NewSymbols(symbols, have, i + 1)
    ELSE <<Upper(symbols[i])>> \o NewSymbols(symbols, have, i + 1)

\* mutation: the limit is tested on the subscriptions held, not on what the
\* request would bring them to
OverLimit_CurrentOnly(current_count, new_symbols) ==
    current_count > MAX_SUBSCRIPTIONS_PER_CLIENT

OverLimit(current_count, new_symbols) ==
    current_count + Len(new_symbols) > MAX_SUBSCRIPTIONS_PER_CLIENT

\* the loop of subscribe from position i on: a cached price is sent after
\* each symbol is added, and a send that raises ends the call
RECURSIVE SubscribeLoop(_, _, _, _, _, _)
SubscribeLoop(m, client_id, new_symbols, i, subscribed, broken) ==
    IF i > Len(new_symbols)
    THEN [m |-> m,
          ret |-> [success |-> TRUE, subscribed |-> subscribed,
                   total_subscriptions |-> Cardinality(m.subscriptions[client_id])]]
    ELSE LET symbol == new_symbols[i]
             added == [m EXCEPT
                 !.subscriptions[client_id] = @ \cup {symbol},
                 !.symbol_subscribers =
                     Put(@, symbol, (IF symbol \in DOMAIN @ THEN @[symbol] ELSE {})
                                        \cup {client_id})]
         IN  IF symbol \in m.price_cache /\ SendFails(m, client_id, broken)
             THEN [m |-> added, ret |-> [raised |-> "send_json"]]
             ELSE SubscribeLoop(added, client_id, new_symbols, i + 1,
                                Append(subscribed, symbol), broken)

Subscribe(m, client_id, symbols, broken) ==
    IF client_id \notin DOMAIN m.subscriptions
    THEN [m |-> m, ret |-> [success |-> FALSE, error |-> "Client not connected"]]
    ELSE LET current_count == Cardinality(m.subscriptions[client_id])
             new_symbols == NewSymbols(symbols, m.subscriptions[client_id], 1)
         IN  IF OverLimit(current_count, new_symbols)
             THEN [m |-> m,
                   ret |-> [success |-> FALSE, error |-> "Maximum subscriptions allowed"]]
             ELSE SubscribeLoop(m, client_id, new_symbols, 1, <<>>, broken)

RECURSIVE UnsubscribeLoop(_, _, _, _, _)
UnsubscribeLoop(m, client_id, symbols, i, unsubscribed) ==
    IF i > Len(symbols)
    THEN [m |-> m,
          ret |-> [success |-> TRUE, unsubscribed |-> unsubscribed,
                   total_subscriptions |-> Cardinality(m.subscriptions[client_id])]]
    ELSE LET symbol == Upper(symbols[i])
         IN  IF symbol \in m.subscriptions[client_id]
             THEN UnsubscribeLoop(
                      [m EXCEPT !.subscriptions[client_id] = @ \ {symbol},
                                !.symbol_subscribers =
                                    DiscardFrom(@, {symbol}, client_id)],
                      client_id, symbols, i + 1, Append(unsubscribed, symbol))
             ELSE UnsubscribeLoop(m, client_id, symbols, i + 1, unsubscribed)

Unsubscribe(m, client_id, symbols) ==
    IF client_id \notin DOMAIN m.subscriptions
    THEN [m |-> m, ret |-> [success |-> FALSE, error |-> "Client not connected"]]
    ELSE UnsubscribeLoop(m, client_id, symbols, 1, <<>>)

\* disconnect each client of the list `disconnected`
RECURSIVE DisconnectAll(_, _)
DisconnectAll(m, disconnected) ==
    IF disconnected = {} THEN m
    ELSE LET client_id == CHOOSE c \in disconnected : TRUE
         IN  DisconnectAll(Disconnect(m, client_id), disconnected \ {client_id})

BroadcastPriceUpdate(m, sym, broken) ==
    LET symbol == Upper(sym)
    IN  IF symbol \notin DOMAIN m.symbol_subscribers THEN m
        ELSE LET cached == [m EXCEPT !.price_cache = @ \cup {symbol}]
                 disconnected ==
                     {c \in m.symbol_subscribers[symbol] : SendFails(m, c, broken)}
             IN  DisconnectAll(cached, disconnected)

InitManager ==
    /\ args = NewManager
    /\ result = NoResult

\* connect: the welcome message is sent after the client is registered; a
\* socket that breaks before it is sent leaves what connect followed by
\* socket_breaks leaves
connect(client_id) ==
    /\ args.op = "WebSocketManager"
    /\ args' = Connect(args, client_id)
    /\ result' = [status |-> "ok", op |-> "connect"]

disconnect(client_id) ==
    /\ args.op = "WebSocketManager"
    /\ args' = Disconnect(args, client_id)
    /\ result' = [status |-> "ok", op |-> "disconnect"]

subscribe(client_id, symbols, broken) ==
    /\ args.op = "WebSocketManager"
    /\ LET call == Subscribe(args, client_id, symbols, broken)
       IN  /\ args' = call.m
           /\ result' = IF "raised" \in DOMAIN call.ret
                        THEN [status |-> "raised", op |-> "subscribe"]
                        ELSE [status |-> "ok", op |-> "subscribe",
                              client_id |-> client_id, symbols |-> symbols,
                              before |-> IF call.ret.success THEN <<>>
                                         ELSE <<args.subscriptions,
                                                args.symbol_subscribers>>,
                              success |-> call.ret.success]

unsubscribe(client_id, symbols) ==
    /\ args.op = "WebSocketManager"
    /\ LET call == Unsubscribe(args, client_id, symbols)
       IN  /\ args' = call.m
           /\ result' = [status |-> "ok", op |-> "unsubscribe",
                         success |-> call.ret.success]

broadcast_price_update(symbol, broken) ==
    /\ args.op = "WebSocketManager"
    /\ args' = BroadcastPriceUpdate(args, symbol, broken)
    /\ result' = [status |-> "ok", op |-> "broadcast_price_update"]

NextManager ==
    \/ \E c \in Clients : connect(c)
    \/ \E c \in Clients : disconnect(c)
    \/ \E c \in Clients, symbols \in SubscribeRequests, broken \in SUBSET Clients :
          subscribe(c, symbols, broken)
    \/ \E c \in Clients, symbols \in UnsubscribeRequests : unsubscribe(c, symbols)
    \/ \E symbol \in BroadcastSymbols, broken \in SUBSET Clients :
          broadcast_price_update(symbol, broken)

SpecManager == InitManager /\ [][NextManager]_vars

-----------------------------------------------------------------------------
(* Properties of WebSocketManager, checked under SpecManager *)

\* C24: after any sequence of connect, subscribe, unsubscribe, disconnect
\* and broadcast operations no client holds more than
\* MAX_SUBSCRIPTIONS_PER_CLIENT (20) subscriptions, and a subscribe request
\* that would take the client over the limit is rejected as a whole: it
\* returns success false and leaves subscriptions and symbol_subscribers
\* as they were.
C24_SubscriptionLimit ==
    /\ \A c \in DOMAIN args.subscriptions : Cardinality(args.subscriptions[c]) <= 20
    /\ (/\ result # NoResult
        /\ result.op = "subscribe"
        /\ result.status = "ok"
        /\ result.client_id \in DOMAIN args.subscriptions
        /\ Cardinality(args.subscriptions[result.client_id]
              \cup {Upper(result.symbols[i]) : i \in 1..Len(result.symbols)}) > 20)
       => /\ result.success = FALSE
          /\ result.before = <<args.subscriptions, args.symbol_subscribers>>

\* C24 witness: a client holding 20 symbols has just been refused a 21st.
C24_Witness ==
    /\ result # NoResult
    /\ result.op = "subscribe"
    /\ result.status = "ok"
    /\ result.symbols = <<21>>
    /\ result.success = FALSE
    /\ result.client_id \in DOMAIN args.subscriptions
    /\ Cardinality(args.subscriptions[result.client_id]) = 20

\* C25: after any sequence of connect, subscribe, unsubscribe, disconnect
\* and broadcast_price_update operations, a connect that reuses a client id
\* and a broadcast whose send fails included, the two indexes agree: a
\* client is in symbol_subscribers[s] exactly if s is in
\* subscriptions[client], and subscriptions has an entry exactly for the
\* clients in active_connections.
C25_IndexesAgree ==
    /\ DOMAIN args.subscriptions = DOMAIN args.active_connections
    /\ \A s \in DOMAIN args.symbol_subscribers :
          \A c \in args.symbol_subscribers[s] :
              c \in DOMAIN args.subscriptions /\ s \in args.subscriptions[c]
    /\ \A c \in DOMAIN args.subscriptions :
          \A s \in args.subscriptions[c] :
              s \in DOMAIN args.symbol_subscribers /\ c \in args.symbol_subscribers[s]

\* What does hold: a subscription is always indexed under its symbol, and
\* the connected clients are the clients with a subscription set.
SubscriptionsAreIndexed ==
    /\ DOMAIN args.subscriptions = DOMAIN args.active_connections
    /\ \A c \in DOMAIN args.subscriptions :
          \A s \in args.subscriptions[c] :
              s \in DOMAIN args.symbol_subscribers /\ c \in args.symbol_subscribers[s]
-----------------------------------------------------------------------------
(* websocket_endpoint (routes/websocket.py) on the ws_manager singleton    *)
(*                                                                         *)
(* Each connection runs the endpoint coroutine under a client id of its    *)
(* own (uuid4).  `args` holds the manager, the position of every           *)
(* connection in the endpoint and the number of start_price_stream tasks   *)
(* that are looping.  A stream task leaves its loop only when it is        *)
(* cancelled, and nothing in the application cancels it: the task object   *)
(* create_task returns is not kept.                                        *)
(***************************************************************************)

MaxConnections == 3

Connections == 1..MaxConnections

InitEndpoint ==
    /\ args = [op |-> "websocket_endpoint", active_connections |-> <<>>,
               subscriptions |-> <<>>, symbol_subscribers |-> <<>>,
               price_cache |-> {},
               pc |-> [c \in Connections |-> "new"], streams |-> 0]
    /\ result = NoResult

\* get_connection_count()
GetConnectionCount(m) == Cardinality(DOMAIN m.active_connections)

\* await ws_manager.connect(websocket, client_id)
endpoint_connect(c) ==
    /\ args.op = "websocket_endpoint"
    /\ args.pc[c] = "new"
    /\ args' = [Connect(args, c) EXCEPT !.pc[c] = "connected"]
    /\ result' = [status |-> "ok", op |-> "connect"]

\* if ws_manager.get_connection_count() == 1:
\*     asyncio.create_task(ws_manager.start_price_stream())
start_stream_if_first(c) ==
    /\ args.op = "websocket_endpoint"
    /\ args.pc[c] = "connected"
    /\ args' = [args EXCEPT !.pc[c] = "serving",
                            !.streams = IF GetConnectionCount(args) = 1
                                        THEN @ + 1 ELSE @]
    /\ result' = [status |-> "ok", op |-> "start_stream_if_first"]

\* a subscribe message is received and handled
endpoint_message(c, symbols) ==
    /\ args.op = "websocket_endpoint"
    /\ args.pc[c] = "serving"
    /\ \E broken \in SUBSET {c} :
          LET call == Subscribe(args, c, symbols, broken)
          IN  /\ args' = call.m
              /\ result' = [status |-> "ok", op |-> "handle_message"]

\* the finally block: WebSocketDisconnect ended the message loop, or the
\* welcome message could not be sent
endpoint_finally(c) ==
    /\ args.op = "websocket_endpoint"
    /\ args.pc[c] \in {"connected", "serving"}
    /\ args' = [Disconnect(args, c) EXCEPT !.pc[c] = "closed"]
    /\ result' = [status |-> "ok", op |-> "disconnect"]

\* the symbols start_price_stream collects from subscriptions.values()
AllSymbols(m) == UNION {m.subscriptions[c] : c \in DOMAIN m.subscriptions}

RECURSIVE BroadcastAll(_, _, _)
BroadcastAll(m, symbols, broken) ==
    IF symbols = {} THEN m
    ELSE LET symbol == CHOOSE s \in symbols : TRUE
         IN  BroadcastAll(BroadcastPriceUpdate(m, symbol, broken),
                          symbols \ {symbol}, broken)

\* one turn of the loop of a start_price_stream task
price_stream ==
    /\ args.op = "websocket_endpoint"
    /\ args.streams >= 1
    /\ \E broken \in SUBSET Connections :
          args' = BroadcastAll(args, AllSymbols(args), broken)
    /\ result' = [status |-> "ok", op |-> "start_price_stream"]

NextEndpoint ==
    \/ \E c \in Connections : endpoint_connect(c)
    \/ \E c \in Connections : start_stream_if_first(c)
    \/ \E c \in Connections, symbols \in {<<21>>, <<7>>} : endpoint_message(c, symbols)
    \/ \E c \in Connections : endpoint_finally(c)
    \/ price_stream

SpecEndpoint == InitEndpoint /\ [][NextEndpoint]_vars

-----------------------------------------------------------------------------
(* Properties of the WebSocket endpoint, checked under SpecEndpoint *)

\* C26: at most one price-stream task is running at any time: the endpoint
\* starts it only for the first connection, and no sequence of connects and
\* disconnects (connect, disconnect, connect) starts a second stream while
\* an earlier one is still looping.
C26_AtMostOneStream == args.streams <= 1

\* What does hold: a stream is started only by a connection that found
\* itself the only one, so there are never more streams than connections
\* that have got past the test.
StreamsStartedByConnections ==
    args.streams <= Cardinality({c \in Connections : args.pc[c] \in {"serving", "closed"}})
-----------------------------------------------------------------------------
(* RealDataPredictor._fetch_historical_data and its cache                  *)
(*                                                                         *)
(* `args` holds the clock (whole seconds since the predictor was built)    *)
(* and self._data_cache: cache key -> (df, cached_at), a frame being named *)
(* by the second it was fetched in.  `result` is what the last call        *)
(* returned, with the age of the entry it found.                           *)
(***************************************************************************)

_cache_ttl == 300

SecondsPerDay == 86400

\* the instants at which something happens: around the ttl, around one day
\* and around two days after the first
Instants ==
    {0, 10, 299, 300, 301, 86399, 86400, 86410, 86699, 86700, 86701, 172800, 172810}

CacheKeys == {"TCS_NSE_6mo", "INFY_NSE_6mo"}

\* timedelta.seconds of a difference of d >= 0 seconds: the seconds left
\* once the whole days have gone to timedelta.days
TimedeltaSeconds(d) == d % SecondsPerDay

\* (datetime.now() - cached_at).seconds < self._cache_ttl
IsFresh(now, cached_at) == TimedeltaSeconds(now - cached_at) < _cache_ttl

InitCache ==
    /\ args = [op |-> "_fetch_historical_data", now |-> 0, _data_cache |-> <<>>]
    /\ result = NoResult

\* time passes
clock_advances ==
    /\ args.op = "_fetch_historical_data"
    /\ \E t \in Instants : t > args.now /\ args' = [args EXCEPT !.now = t]
    /\ UNCHANGED result

\* _fetch_historical_data(symbol, period, exchange); `history` is what
\* ticker.history gives if it is asked
fetch_historical_data(cache_key, history) ==
    /\ args.op = "_fetch_historical_data"
    /\ LET cached == cache_key \in DOMAIN args._data_cache
           age == IF cached THEN args.now - args._data_cache[cache_key].cached_at
                  ELSE -1
       IN  IF cached /\ IsFresh(args.now, args._data_cache[cache_key].cached_at)
           THEN /\ result' = [status |-> "ok", cache_key |-> cache_key,
                              df |-> args._data_cache[cache_key].df,
                              fetched |-> FALSE, age |-> age]
                /\ UNCHANGED args
           ELSE IF history = "frame"
           THEN /\ result' = [status |-> "ok", cache_key |-> cache_key,
                              df |-> args.now, fetched |-> TRUE, age |-> age]
                /\ args' = [args EXCEPT !._data_cache =
                               Put(@, cache_key, [df |-> args.now, cached_at |-> args.now])]
           ELSE \* an empty frame or an exception: pd.DataFrame() is returned
                /\ result' = [status |-> "ok", cache_key |-> cache_key,
                              df |-> "empty", fetched |-> TRUE, age |-> age]
                /\ UNCHANGED args

NextCache ==
    \/ clock_advances
    \/ \E cache_key \in CacheKeys, history \in {"frame", "empty", "raises"} :
          fetch_historical_data(cache_key, history)

SpecCache == InitCache /\ [][NextCache]_vars

-----------------------------------------------------------------------------
(* Properties of the history cache, checked under SpecCache *)

\* C27: _fetch_historical_data returns a cached frame without refetching
\* only if the entry was stored less than _cache_ttl = 300 seconds earlier;
\* an entry of any greater age, one day or more included, is never served.
C27_ServedOnlyWhenFresh ==
    (result # NoResult /\ ~result.fetched) => result.age < 300

\* What does hold: an entry less than a day old is served only while it is
\* less than 300 seconds old, and an entry is served exactly when the
\* seconds of its age beyond whole days are fewer than 300.
ServedOnlyWhenFreshWithinADay ==
    result # NoResult =>
        /\ (~result.fetched /\ result.age < 86400) => result.age < 300
        /\ (result.age >= 0) => (~result.fetched <=> result.age % 86400 < 300)
-----------------------------------------------------------------------------
(* CacheManager and InMemoryCache (utils/cache.py)                         *)
(*                                                                         *)
(* `args` holds the two stores, each a function from the keys it holds to  *)
(* their values (the Redis server's, and InMemoryCache._cache), and        *)
(* _redis_available as initialize() left it.  `result` is what the last    *)
(* call returned, together with the set `deleted` of the keys for which    *)
(* delete has returned True since their last set.  Each call is given      *)
(* whether its Redis command raises.  What get returns is a value, or 0    *)
(* for None.                                                               *)
(***************************************************************************)

Keys == {"k1", "k2"}

Values == {1, 2}

InitCacheManager ==
    /\ args \in [op : {"CacheManager"}, _redis_available : BOOLEAN,
                 redis : {<<>>}, memory : {<<>>}]
    /\ result = [status |-> "none", deleted |-> {}]

\* CacheManager.get; 0 stands for None
Get(m, key, raises) ==
    IF m._redis_available /\ ~raises /\ key \in DOMAIN m.redis
    THEN m.redis[key]
    ELSE IF key \in DOMAIN m.memory THEN m.memory[key] ELSE 0

cache_get(key, raises) ==
    /\ args.op = "CacheManager"
    /\ result' = [status |-> "ok", op |-> "get", key |-> key,
                  value |-> Get(args, key, raises), deleted |-> result.deleted]
    /\ UNCHANGED args

\* CacheManager.set: a Redis set that raises falls back to memory.set
cache_set(key, value, raises) ==
    /\ args.op = "CacheManager"
    /\ IF args._redis_available /\ ~raises
       THEN args' = [args EXCEPT !.redis = Put(@, key, value)]
       ELSE args' = [args EXCEPT !.memory = Put(@, key, value)]
    /\ result' = [status |-> "ok", op |-> "set", key |-> key, value |-> TRUE,
                  deleted |-> result.deleted \ {key}]

\* CacheManager.delete: True as soon as the Redis delete has not raised,
\* otherwise what memory.delete returns
cache_delete(key, raises) ==
    /\ args.op = "CacheManager"
    /\ IF args._redis_available /\ ~raises
       THEN /\ args' = [args EXCEPT !.redis = Del(@, key)]
            /\ result' = [status |-> "ok", op |-> "delete", key |-> key,
                          value |-> TRUE, deleted |-> result.deleted \cup {key}]
       ELSE IF key \in DOMAIN args.memory
       THEN /\ args' = [args EXCEPT !.memory = Del(@, key)]
            /\ result' = [status |-> "ok", op |-> "delete", key |-> key,
                          value |-> TRUE, deleted |-> result.deleted \cup {key}]
       ELSE /\ UNCHANGED args
            /\ result' = [status |-> "ok", op |-> "delete", key |-> key,
                          value |-> FALSE, deleted |-> result.deleted]

\* the ttl of an entry runs out: Redis drops the key, or the next
\* InMemoryCache.get finds it expired and deletes it
entry_expires(key) ==
    /\ args.op = "CacheManager"
    /\ \/ key \in DOMAIN args.redis /\ args' = [args EXCEPT !.redis = Del(@, key)]
       \/ key \in DOMAIN args.memory /\ args' = [args EXCEPT !.memory = Del(@, key)]
    /\ UNCHANGED result

NextCacheManager ==
    \/ \E key \in Keys, raises \in BOOLEAN : cache_get(key, raises)
    \/ \E key \in Keys, value \in Values, raises \in BOOLEAN :
          cache_set(key, value, raises)
    \/ \E key \in Keys, raises \in BOOLEAN : cache_delete(key, raises)
    \/ \E key \in Keys : entry_expires(key)

SpecCacheManager == InitCacheManager /\ [][NextCacheManager]_vars

-----------------------------------------------------------------------------
(* Properties of CacheManager, checked under SpecCacheManager *)

\* C28: after delete(key) has returned True, get(key) returns None until
\* the next set(key), in every sequence of set/get/delete calls and under
\* every pattern of Redis calls succeeding or raising.
C28_DeletedStaysDeleted ==
    (result.status = "ok" /\ result.op = "get" /\ result.key \in result.deleted)
        => result.value = 0

\* What does hold: without Redis (initialize() found none) the memory cache
\* alone answers, and a deleted key stays deleted until it is set.
DeletedStaysDeletedWithoutRedis ==
    (/\ ~args._redis_available
     /\ result.status = "ok" /\ result.op = "get" /\ result.key \in result.deleted)
        => result.value = 0
-----------------------------------------------------------------------------
(* async_retry (services/data_fetcher.py)                                  *)
(*                                                                         *)
(* `args` holds the decorator's parameters and what each invocation of the *)
(* wrapped function will do; `result` the progress of one call of the      *)
(* wrapper: the loop variable, the delay, the invocations made, the delays *)
(* slept and, at the end, the value returned or the exception raised (an   *)
(* invocation's value or exception is named by its number).  Delays are in *)
(* tenths of a second.                                                     *)
(***************************************************************************)

MaxRetries == 3

RetryArgs ==
    UNION {[op : {"async_retry"}, max_retries : {n}, initial_delay : {5, 10},
            backoff_factor : {1, 2, 3}, outcomes : [1..n -> {"returns", "raises"}]]
           : n \in 1..MaxRetries}

InitRetry ==
    /\ args \in RetryArgs
    /\ result = NoResult

\* mutation: the wrapper sleeps after every failed attempt, the last too
SleepsAfter_EveryAttempt(attempt, max_retries) == TRUE

\* if attempt < max_retries - 1: the wrapper sleeps before the next attempt
SleepsAfter(attempt, max_retries) == attempt < max_retries - 1

\* the wrapper is called: delay = initial_delay, last_exception = None, and
\* the loop starts with attempt = 0
wrapper_called ==
    /\ args.op = "async_retry"
    /\ result = NoResult
    /\ result' = [status |-> "running", attempt |-> 0, delay |-> args.initial_delay,
                  invocations |-> 0, sleeps |-> <<>>, last_exception |-> 0]
    /\ UNCHANGED args

\* one turn of the loop up to its await asyncio.sleep(delay), or to the end
\* of the wrapper
attempt_func ==
    /\ args.op = "async_retry"
    /\ result.status = "running"
    /\ LET n == result.invocations + 1
       IN  IF args.outcomes[n] = "returns"
           THEN result' = [result EXCEPT !.status = "ok", !.invocations = n]
                              @@ [value |-> n]
           ELSE IF SleepsAfter(result.attempt, args.max_retries)
           THEN result' = [result EXCEPT !.status = "sleeping", !.invocations = n,
                               !.last_exception = n,
                               !.sleeps = Append(@, result.delay)]
           ELSE \* the loop is over: raise last_exception
                result' = [result EXCEPT !.status = "raised", !.invocations = n,
                               !.last_exception = n] @@ [error |-> n]
    /\ UNCHANGED args

\* asyncio.sleep returns: delay *= backoff_factor and the next turn
sleep_returns ==
    /\ args.op = "async_retry"
    /\ result.status = "sleeping"
    /\ IF result.attempt + 1 < args.max_retries
       THEN result' = [result EXCEPT !.status = "running", !.attempt = @ + 1,
                           !.delay = @ * args.backoff_factor]
       ELSE result' = [result EXCEPT !.status = "raised"]
                          @@ [error |-> result.last_exception]
    /\ UNCHANGED args

NextRetry == wrapper_called \/ attempt_func \/ sleep_returns

\* every await of the wrapper returns: the wrapped function ends and a
\* sleep is over after its delay
SpecRetry == InitRetry /\ [][NextRetry]_vars /\ WF_vars(NextRetry)

-----------------------------------------------------------------------------
(* Properties of async_retry, checked under SpecRetry *)

RECURSIVE Power(_, _)
Power(b, k) == IF k = 0 THEN 1 ELSE b * Power(b, k - 1)

RetryDone == result.status \in {"ok", "raised"}

\* the invocations made so far have all raised, but for the one that ended
\* the call with its value
RetryState ==
    result # NoResult =>
        /\ result.invocations <= args.max_retries
        /\ Len(result.sleeps) <= args.max_retries - 1
        /\ result.sleeps = [i \in 1..Len(result.sleeps) |->
                               args.initial_delay * Power(args.backoff_factor, i - 1)]
        /\ RetryDone =>
              /\ result.invocations >= 1
              /\ Len(result.sleeps) = result.invocations - 1
              /\ \A i \in 1..(result.invocations - 1) : args.outcomes[i] = "raises"
        /\ result.status = "ok" =>
              /\ args.outcomes[result.invocations] = "returns"
              /\ result.value = result.invocations
        /\ result.status = "raised" =>
              /\ result.invocations = args.max_retries
              /\ args.outcomes[args.max_retries] = "raises"
              /\ result.error = args.max_retries

\* C29: a function wrapped by async_retry(max_retries = n, initial_delay =
\* d, backoff_factor = b), n >= 1, is invoked at least once and at most n
\* times; the wrapper returns the first successful result without a further
\* invocation, and raises the last exception if all n invocations raise; it
\* sleeps only between attempts, for d, d*b, d*b^2, ..., and so always
\* ends, after at most n - 1 sleeps.
C29_RetryContract == []RetryState /\ <>RetryDone

\* C29 witness: with max_retries = 3, delay 5 and factor 2 the third
\* invocation returned after two failures and sleeps of 5 and 10.
C29_Witness ==
    /\ result # NoResult
    /\ result.status = "ok"
    /\ args.max_retries = 3
    /\ result.invocations = 3
    /\ result.sleeps = <<5, 10>>
    /\ result.value = 3
-----------------------------------------------------------------------------
(* The RSI of RealDataPredictor._calculate_technical_indicators next to    *)
(* TechnicalIndicators.calculate_rsi                                       *)
(***************************************************************************)

\* indicators['rsi'] of _calculate_technical_indicators (lines 139-143):
\* rs = gain / loss with no replacement of a zero loss, and 50.0 only where
\* the latest rs is NaN
PredictorRsi(close) ==
    LET s     == ToSeries(close)
        n     == Len(close)
        delta == Diff(s, 1)
        ups   == [i \in 1..n |-> IF FGt(delta[i], Num(0)) THEN delta[i] ELSE Num(0)]
        downs == [i \in 1..n |-> FNeg(IF FLt(delta[i], Num(0)) THEN delta[i] ELSE Num(0))]
        gain  == RollingMean(ups, 14, n)
        loss  == RollingMean(downs, 14, n)
        rs    == FDiv(gain, loss)
    IN  IF ~IsNan(rs)
        THEN FSub(Num(100), FDiv(Num(100), FAdd(Num(1), rs)))
        ELSE Num(50)

\* histories of 20 bars and more: a trend of `step` a bar from `base`, with
\* one bar `dip` lower, `back` bars before the last
Trend(n, base, step, dip, back) ==
    [i \in 1..n |-> base + step * i - (IF i = n - back THEN dip ELSE 0)]

RsiHistories ==
    {Trend(n, base, step, dip, back) :
        n \in {20, 21, 25}, base \in {50, 100}, step \in {-1, 0, 1, 2},
        dip \in {0, 3, 10}, back \in {1, 10, 16}}

InitRsi ==
    /\ args \in [op : {"rsi"}, close : RsiHistories]
    /\ result = [status |-> "none"]

\* _calculate_technical_indicators(df): its 'rsi'
predictor_rsi ==
    /\ args.op = "rsi"
    /\ "rsi" \notin DOMAIN result
    /\ result' = [status |-> "ok", rsi |-> PredictorRsi(args.close)] @@ result
    /\ UNCHANGED args

\* TechnicalIndicators.calculate_rsi(close, 14).iloc[-1]
engine_rsi ==
    /\ args.op = "rsi"
    /\ "latest" \notin DOMAIN result
    /\ result' = [status |-> "ok",
                  latest |-> CalculateRsi(args.close, 14)[Len(args.close)]] @@ result
    /\ UNCHANGED args

SpecRsi == InitRsi /\ [][predictor_rsi \/ engine_rsi]_vars

-----------------------------------------------------------------------------
(* Properties of the two RSI computations, checked under SpecRsi *)

BothRsi == "rsi" \in DOMAIN result /\ "latest" \in DOMAIN result

\* the closes of the last 14 changes never fall / never rise
NoLossInWindow ==
    \A i \in (Len(args.close) - 13)..Len(args.close) : args.close[i] >= args.close[i - 1]

NoGainInWindow ==
    \A i \in (Len(args.close) - 13)..Len(args.close) : args.close[i] <= args.close[i - 1]

\* C30: for every price series of at least 20 bars the RSI that
\* _calculate_technical_indicators feeds to the heuristic predictor equals
\* the latest value of calculate_rsi(close, 14) on the same series; a 14-bar
\* window with zero average loss resolves to the neutral 50 in both.
C30_SameRsi ==
    BothRsi =>
        /\ result.rsi = result.latest
        /\ NoLossInWindow => result.rsi = Num(50)

\* What does hold: the two agree whenever the window holds a loss, and on a
\* window without any change; on a window with gains and no loss
\* calculate_rsi gives 50 and the predictor 100.
RsiAgreesWithLoss ==
    BothRsi =>
        /\ (~NoLossInWindow \/ NoGainInWindow) => result.rsi = result.latest
        /\ (NoLossInWindow /\ ~NoGainInWindow) =>
              result.rsi = Num(100) /\ result.latest = Num(50)

====
